---- MODULE Spec2Model ----
(***************************************************************************)
(* Global Connect: the connection graph of the Directory Store             *)
(* (server/routes/users.js, server/models/User.js) and the Message Log     *)
(* with its derived conversations (the messages router, models/Message).   *)
(* Also the handlers that notify (posts and jobs routers), the             *)
(* notifications router, and the socket server with its rooms.             *)
(***************************************************************************)
EXTENDS Integers, Sequences, FiniteSets, TLC

VARIABLES users, messages, notifications, resp, reqs, sockets

vars == <<users, messages, notifications, resp, reqs, sockets>>

-----------------------------------------------------------------------------
(* Bounds of the model                                                     *)

MaxMsgs == 2

MaxNotifs == 0

MaxInFlight == 2

MaxDeletedBy == 1

-----------------------------------------------------------------------------
(* Identities                                                              *)

UserIds == {"a", "b", "d"}

\* a well-formed id that no user document carries
Ghost == "z"

Ids == UserIds \cup {Ghost}

NoId == "none"

RoleOf(u) == IF u = "d" THEN "admin" ELSE "user"

-----------------------------------------------------------------------------
(* Sequence helpers                                                        *)

Reverse(s) == [i \in 1..Len(s) |-> s[Len(s) + 1 - i]]

Range(s) == {s[i] : i \in 1..Len(s)}

Contains(s, x) == \E i \in 1..Len(s) : s[i] = x

Filter(s, x) == SelectSeq(s, LAMBDA y : y # x)

\* Array.prototype.findIndex: first index holding x, 0 when there is none
FindIndex(s, x) == IF Contains(s, x) THEN CHOOSE i \in 1..Len(s) : s[i] = x /\ \A j \in 1..(i - 1) : s[j] # x ELSE 0

\* Array.prototype.splice(i, 1)
Splice(s, i) == [j \in 1..(Len(s) - 1) |-> IF j < i THEN s[j] ELSE s[j + 1]]

Min(x, y) == IF x < y THEN x ELSE y

\* cursor.skip(n).limit(k)
SkipLimit(s, n, k) == SubSeq(s, n + 1, Min(Len(s), n + k))

RECURSIVE InsertDesc(_, _)
InsertDesc(s, m) == IF s = <<>> THEN <<m>> ELSE IF m.createdAt >= Head(s).createdAt THEN <<m>> \o s ELSE <<Head(s)>> \o InsertDesc(Tail(s), m)

\* sort({ createdAt: -1 })
RECURSIVE SortCreatedAtDesc(_)
SortCreatedAtDesc(s) == IF s = <<>> THEN <<>> ELSE InsertDesc(SortCreatedAtDesc(Tail(s)), Head(s))

-----------------------------------------------------------------------------
(* Documents                                                               *)

NoDate == "unset"

SomeDate == "set"

NoUrl == "nourl"

\* a request body without a content field
NoContent == [present |-> FALSE, len |-> 0, blank |-> FALSE]

\* content is kept by its length and by whether it is whitespace only
Text(n, blank) == [present |-> TRUE, len |-> n, blank |-> blank]

MaxContentLength == 2000

DefaultLimit == 50

MessageTypes == {"text", "image", "file", "link"}

\* new User(): the relationship lists of models/User.js
NewUser(u) ==
  [connections |-> <<>>, connectionRequests |-> <<>>, sentRequests |-> <<>>,
   role |-> RoleOf(u), isActive |-> TRUE]

\* a document created as already read (C2 fails under it)
NewMessage_Read(id, senderId, receiverId, content, messageType, mediaUrl) ==
  [_id |-> id, senderId |-> senderId, receiverId |-> receiverId, content |-> content,
   messageType |-> messageType, mediaUrl |-> mediaUrl,
   isRead |-> TRUE, readAt |-> "set", isDeleted |-> FALSE, deletedAt |-> "unset",
   deletedBy |-> <<>>, reactions |-> <<>>, createdAt |-> id]

\* new Message({...}) with the schema defaults of models/Message
NewMessage(id, senderId, receiverId, content, messageType, mediaUrl) ==
  [_id |-> id, senderId |-> senderId, receiverId |-> receiverId, content |-> content,
   messageType |-> messageType, mediaUrl |-> mediaUrl,
   isRead |-> FALSE, readAt |-> NoDate,
   isDeleted |-> FALSE, deletedAt |-> NoDate, deletedBy |-> <<>>,
   reactions |-> <<>>, createdAt |-> id]

NewNotification(recipientId, senderId, type) ==
  [recipientId |-> recipientId, senderId |-> senderId, type |-> type, isRead |-> FALSE]

Event(name, room, ref) == [name |-> name, room |-> room, ref |-> ref]

\* the connections the socket server holds at once
MaxSockets == 2

Handles == 1..MaxSockets

\* a handle that never carried a connection
NoSocket == [userId |-> NoId, open |-> FALSE, received |-> {}]

NoSockets == [h \in Handles |-> NoSocket]

\* a room that keeps one socket of a user: the first connected one
InRoom_First(socks, room) ==
  {h \in Handles : /\ socks[h].open /\ socks[h].userId = room
                   /\ \A k \in 1..(h - 1) : ~(socks[k].open /\ socks[k].userId = room)}

\* the sockets of a room: a connected socket is in the room of its user
InRoom(socks, room) == {h \in Handles : socks[h].open /\ socks[h].userId = room}

\* io.to(room).emit(name, payload), for the events a handler emitted: each is
\* received by the sockets that are in its room when it is emitted
Deliver(socks, events) ==
  [h \in Handles |->
     [socks[h] EXCEPT !.received =
        @ \cup {events[i] : i \in {j \in 1..Len(events) : h \in InRoom(socks, events[j].room)}}]]

\* what a handler answers: status, body fields, and the socket events it emitted
Response(op, status) ==
  [op |-> op, status |-> status, info |-> "",
   messages |-> <<>>, conversations |-> <<>>, users |-> {}, updatedCount |-> -1,
   unreadCount |-> -1, events |-> <<>>]

\* authenticateToken: req.user is the stored document of the token's user
ReqUser(u) == users[u]

\* User.findById
UserExists(id) == id \in UserIds

-----------------------------------------------------------------------------
(* models/User.js methods                                                  *)

isConnectedTo(user, userId) == Contains(user.connections, userId)

hasSentRequestTo(user, userId) == Contains(user.sentRequests, userId)

hasReceivedRequestFrom(user, userId) == Contains(user.connectionRequests, userId)

getConnectionStatus(user, userId) ==
  IF isConnectedTo(user, userId) THEN "connected"
  ELSE IF hasSentRequestTo(user, userId) THEN "requested"
  ELSE IF hasReceivedRequestFrom(user, userId) THEN "pending"
  ELSE "none"

-----------------------------------------------------------------------------
(* Access policy of the messages router                                    *)

\* the send check left out: everyone may message everyone (C1 fails under it)
CanMessage_Open(reqUser, otherId) == TRUE

\* a policy in which the admin role opens nothing
CanMessage_ConnectedOnly(reqUser, otherId) ==
  Contains(reqUser.connections, otherId)

\* isConnected || isAdmin, as the send and the view handlers compute it
CanMessage(reqUser, otherId) ==
  Contains(reqUser.connections, otherId) \/ reqUser.role = "admin"

CanViewConversation(reqUser, otherId) ==
  Contains(reqUser.connections, otherId) \/ reqUser.role = "admin"

CanViewPair(me, otherId) ==
  Contains(me.connections, otherId) \/ me.role = "admin"

CanMarkConversation(reqUser, otherId) ==
  Contains(reqUser.connections, otherId) \/ reqUser.role = "admin"

\* the thread route only asks that the requester is one of the two parties
CanViewThread(uid, sender, receiver) == uid = sender \/ uid = receiver

-----------------------------------------------------------------------------
(* POST /api/messages                                                      *)

\* a check without the upper limit (C13 fails under it)
ContentValid_Unlimited(content) ==
  /\ content.present
  /\ content.len # 0
  /\ ~content.blank

ContentValid(content) ==
  /\ content.present
  /\ content.len # 0
  /\ ~content.blank
  /\ content.len <= MaxContentLength

\* /^https?:\/\//i
UrlWellFormed(mediaUrl) == mediaUrl \in {"http://m", "https://m"}

\* mediaUrl: '' in the body
EmptyUrl == ""

\* the mediaUrl validator of the schema: !v holds for an absent and for an empty value
MediaUrlValidator(messageType, mediaUrl) ==
  ~(messageType # "text" /\ mediaUrl \in {NoUrl, EmptyUrl})

\* what validation on save can make of the mediaUrl path: models/Message declares
\* the validator, and whether it is run when the path holds no value at all is
\* not settled by the code in src, so both outcomes are taken
ValidatorOutcomes(messageType, mediaUrl) ==
  IF mediaUrl = NoUrl THEN {TRUE, MediaUrlValidator(messageType, mediaUrl)}
  ELSE {MediaUrlValidator(messageType, mediaUrl)}

SendStatus(reqUser, receiverId, content, messageType, mediaUrl, validated) ==
  IF receiverId = NoId THEN 400
  ELSE IF ~ContentValid(content) THEN 400
  ELSE IF messageType \notin MessageTypes THEN 400
  ELSE IF messageType # "text" /\ mediaUrl \notin {NoUrl, EmptyUrl} /\ ~UrlWellFormed(mediaUrl)
       THEN 400
  ELSE IF ~UserExists(receiverId) THEN 404
  ELSE IF ~CanMessage(reqUser, receiverId) THEN 403
  ELSE IF ~validated THEN 500
  ELSE 201

MessageEvents(receiverId, id) ==
  <<Event("message:new", receiverId, id), Event("receive_message", receiverId, id)>>

\* a handler that answers with the failure of a push or of the notification
AnswerAfterSave_Propagate(pushed, stored, notified) ==
  IF pushed = 2 /\ stored /\ notified THEN 201 ELSE 500

\* both try blocks catch and log; the answer after a save is always 201
AnswerAfterSave(pushed, stored, notified) == 201

\* the handler; pushed is the number of emits of the first try block that ran
\* before one threw, stored is whether Notification.create succeeded, notified
\* whether the emit of notification:new did
SendMessageWith(u, receiverId, content, messageType, mediaUrl, pushed, stored, notified) ==
  \E validated \in ValidatorOutcomes(messageType, mediaUrl) :
  LET status == SendStatus(ReqUser(u), receiverId, content, messageType, mediaUrl, validated)
      id == Len(messages) + 1
      message == NewMessage(id, u, receiverId, content, messageType, mediaUrl)
  IN  /\ status = 201 => Len(messages) < MaxMsgs
      /\ IF status = 201
         THEN /\ messages' = Append(messages, message)
              /\ notifications' =
                   IF stored
                   THEN Append(notifications, NewNotification(receiverId, u, "MESSAGE"))
                   ELSE notifications
              /\ resp' = [Response("send", AnswerAfterSave(pushed, stored, notified)) EXCEPT
                            !.messages = <<message>>,
                            !.events = SubSeq(MessageEvents(receiverId, id), 1, pushed) \o
                                       (IF stored /\ notified
                                        THEN <<Event("notification:new", receiverId, Len(notifications) + 1)>>
                                        ELSE <<>>)]
         ELSE /\ resp' = Response("send", status)
              /\ UNCHANGED <<messages, notifications>>
      /\ sockets' = Deliver(sockets, resp'.events)
      /\ UNCHANGED <<users, reqs>>

\* the handler over a socket server whose emits succeed
SendMessage(u, receiverId, content, messageType, mediaUrl, notifOk) ==
  SendMessageWith(u, receiverId, content, messageType, mediaUrl, 2, notifOk, TRUE)

-----------------------------------------------------------------------------
(* Queries and bulk updates of models/Message                              *)

Between(m, x, y) ==
  \/ m.senderId = x /\ m.receiverId = y
  \/ m.senderId = y /\ m.receiverId = x

\* find({ $or: [x -> y, y -> x], isDeleted: false })
FindConversation(x, y) == SelectSeq(messages, LAMBDA m : Between(m, x, y) /\ ~m.isDeleted)

\* Message.getConversation(user1Id, user2Id, limit, skip): newest first, one page
getConversation(user1Id, user2Id, limit, skip) ==
  SkipLimit(SortCreatedAtDesc(FindConversation(user1Id, user2Id)), skip, limit)

\* the filter { senderId, receiverId, isRead: false, isDeleted: false }
UnreadFrom(m, senderId, receiverId) ==
  m.senderId = senderId /\ m.receiverId = receiverId /\ ~m.isRead /\ ~m.isDeleted

\* an updateMany that matches nothing and leaves the log as it is (C7 fails
\* under it)
MarkedRead_Unmarked(senderId, receiverId) == messages

\* an updateMany that sets isRead and leaves readAt alone (C8 fails under it)
MarkedRead_NoReadAt(senderId, receiverId) ==
  [i \in 1..Len(messages) |->
     IF UnreadFrom(messages[i], senderId, receiverId)
     THEN [messages[i] EXCEPT !.isRead = TRUE]
     ELSE messages[i]]

\* updateMany(UnreadFrom, { isRead: true, readAt: new Date() }): the log it leaves
MarkedRead(senderId, receiverId) ==
  [i \in 1..Len(messages) |->
     IF UnreadFrom(messages[i], senderId, receiverId)
     THEN [messages[i] EXCEPT !.isRead = TRUE, !.readAt = SomeDate]
     ELSE messages[i]]

\* result.modifiedCount of that updateMany
ModifiedCount(senderId, receiverId) ==
  Cardinality({i \in 1..Len(messages) : UnreadFrom(messages[i], senderId, receiverId)})

\* Message.markConversationAsRead(user1Id, user2Id): marks what user2Id sent to user1Id
markConversationAsRead(user1Id, user2Id) == MarkedRead(user2Id, user1Id)

\* Message.getUnreadCount(userId)
getUnreadCount(userId) ==
  Cardinality({i \in 1..Len(messages) :
     messages[i].receiverId = userId /\ ~messages[i].isRead /\ ~messages[i].isDeleted})

\* the ?page&limit queries tried: the default page, and the second page of one
PageQueries == {[page |-> 1, limit |-> DefaultLimit], [page |-> 2, limit |-> 1]}

-----------------------------------------------------------------------------
(* GET /api/messages/thread/:sender/:receiver                              *)

GetThread(u, sender, receiver, page, limit) ==
  LET skip == (page - 1) * limit
  IN  /\ IF ~CanViewThread(u, sender, receiver)
         THEN /\ resp' = Response("thread", 403)
              /\ UNCHANGED messages
         ELSE /\ resp' = [Response("thread", 200) EXCEPT
                            !.messages = Reverse(getConversation(sender, receiver, limit, skip))]
              /\ messages' = IF u = receiver
                             THEN markConversationAsRead(sender, receiver)
                             ELSE messages
      /\ UNCHANGED <<users, notifications, reqs, sockets>>

-----------------------------------------------------------------------------
(* GET /api/messages/conversation/:userId                                  *)

GetConversation(u, userId, page, limit) ==
  LET skip == (page - 1) * limit
      found == SkipLimit(SortCreatedAtDesc(FindConversation(u, userId)), skip, limit)
  IN  /\ IF ~CanViewConversation(ReqUser(u), userId)
         THEN /\ resp' = Response("conversation", 403)
              /\ UNCHANGED messages
         ELSE /\ resp' = [Response("conversation", 200) EXCEPT !.messages = Reverse(found)]
              /\ messages' = MarkedRead(userId, u)
      /\ UNCHANGED <<users, notifications, reqs, sockets>>

-----------------------------------------------------------------------------
(* PUT /api/messages/conversation/:userId/read                             *)

MarkConversationRead(u, userId) ==
  /\ IF ~CanMarkConversation(ReqUser(u), userId)
     THEN /\ resp' = Response("markRead", 403)
          /\ UNCHANGED messages
     ELSE /\ resp' = [Response("markRead", 200) EXCEPT
                        !.updatedCount = ModifiedCount(userId, u)]
          /\ messages' = MarkedRead(userId, u)
  /\ UNCHANGED <<users, notifications, reqs, sockets>>

-----------------------------------------------------------------------------
(* GET /api/messages/:otherUserId                                          *)

\* the outcomes of casting :otherUserId to an ObjectId in the filter of
\* Message.find: a well-formed id is cast, another string may be refused
CastOutcomes(otherId) == IF otherId \in Ids THEN {TRUE} ELSE {TRUE, FALSE}

GetPair(u, otherId) ==
  /\ \E cast \in CastOutcomes(otherId) :
       IF ~CanViewPair(users[u], otherId)
       THEN resp' = Response("pair", 403)
       ELSE IF ~cast
       THEN resp' = Response("pair", 500)
       ELSE resp' = [Response("pair", 200) EXCEPT
                       !.messages = Reverse(SortCreatedAtDesc(FindConversation(u, otherId)))]
  /\ UNCHANGED <<users, messages, notifications, reqs, sockets>>

-----------------------------------------------------------------------------
(* GET /api/messages/conversations                                         *)

\* id.toString(): the string form of an ObjectId
toString(id) == <<"string", id>>

\* whether the store takes a stored ObjectId as equal to its string form: the
\* pipeline of Message.aggregate reaches the store as written, with the strings
\* of connectionIds in it, and models/Message does not settle the comparison
StoreCasts == BOOLEAN

\* $match: not deleted, between the user and one of the connections
MatchConversations(currentUserId, connectionIds, castIds) ==
  SelectSeq(messages, LAMBDA m :
    /\ ~m.isDeleted
    /\ \/ m.senderId = currentUserId /\ castIds /\ toString(m.receiverId) \in connectionIds
       \/ m.receiverId = currentUserId /\ castIds /\ toString(m.senderId) \in connectionIds)

\* $addFields otherUser
OtherUser(m, currentUserId) ==
  IF m.senderId = currentUserId THEN m.receiverId ELSE m.senderId

GroupDocs(matched, currentUserId, k) ==
  {m \in Range(matched) : OtherUser(m, currentUserId) = k}

\* a $sum that counts the unread messages of both directions (C9 fails under it)
UnreadCountOf_Both(docs, currentUserId) ==
  Cardinality({m \in docs : m.isRead = FALSE})

\* $sum of the $cond over one group
UnreadCountOf(docs, currentUserId) ==
  Cardinality({m \in docs : m.receiverId = currentUserId /\ m.isRead = FALSE})

\* $first of a group: the pipeline sorts nothing before $group, so the store may
\* hand any document of the group over first
FirstOf(docs) == docs

\* $group: one entry per otherUser, for every order the store may deliver
GroupConversations(matched, currentUserId) ==
  LET keys == {OtherUser(m, currentUserId) : m \in Range(matched)}
      firsts == {f \in [keys -> Range(matched)] :
                   \A k \in keys : f[k] \in FirstOf(GroupDocs(matched, currentUserId, k))}
  IN  {{[_id |-> k, lastMessage |-> f[k],
         unreadCount |-> UnreadCountOf(GroupDocs(matched, currentUserId, k), currentUserId)]
        : k \in keys} : f \in firsts}

\* $sort: { 'lastMessage.createdAt': -1 }
RECURSIVE SortLastMessageDesc(_)
SortLastMessageDesc(entries) ==
  IF entries = {} THEN <<>>
  ELSE LET top == CHOOSE e \in entries :
                    \A o \in entries : e.lastMessage.createdAt >= o.lastMessage.createdAt
       IN  <<top>> \o SortLastMessageDesc(entries \ {top})

\* populate, dropping the entries whose user is gone
PopulateConversations(convs) == SelectSeq(convs, LAMBDA c : UserExists(c._id))

\* every conversations array the non-admin branch can answer with
ConversationLists(u) ==
  LET connectionIds == {toString(id) : id \in Range(users[u].connections)}
  IN  IF connectionIds = {} THEN {<<>>}
      ELSE UNION {{PopulateConversations(SortLastMessageDesc(g)) :
                     g \in GroupConversations(MatchConversations(u, connectionIds, castIds), u)}
                  : castIds \in StoreCasts}

GetConversations(u) ==
  /\ IF ReqUser(u).role = "admin"
     THEN resp' = [Response("conversations", 200) EXCEPT
                     !.info = "admin",
                     !.users = {v \in UserIds : v # u /\ users[v].isActive}]
     ELSE \E convs \in ConversationLists(u) :
            resp' = [Response("conversations", 200) EXCEPT
                       !.info = "user", !.conversations = convs]
  /\ UNCHANGED <<users, messages, notifications, reqs, sockets>>

-----------------------------------------------------------------------------
(* DELETE /api/messages/:id                                                *)

\* a lookup that lets every requester through (C12 fails under it)
DeleteStatus_Anyone(u, id) ==
  IF id \notin 1..Len(messages) THEN 404 ELSE 200

DeleteStatus(u, id) ==
  IF id \notin 1..Len(messages) THEN 404
  ELSE IF messages[id].senderId # u /\ messages[id].receiverId # u THEN 403
  ELSE 200

DeleteMessage(u, id) ==
  LET status == DeleteStatus(u, id)
  IN  /\ status = 200 => Len(messages[id].deletedBy) < MaxDeletedBy
      /\ resp' = Response("delete", status)
      /\ messages' = IF status = 200
                     THEN [messages EXCEPT ![id].isDeleted = TRUE,
                                           ![id].deletedAt = SomeDate,
                                           ![id].deletedBy = Append(@, u)]
                     ELSE messages
      /\ UNCHANGED <<users, notifications, reqs, sockets>>

-----------------------------------------------------------------------------
(* POST /api/users/connect/:id: send a connection request                  *)

\* what the handler answers, from req.user and the target it loaded
\* checks that do not look for a request already sent
ConnectInfo_NoPendingCheck(reqUser, u, targetUserId, targetUser) ==
  IF targetUserId = NoId THEN "invalid_id"
  ELSE IF u = targetUserId THEN "self"
  ELSE IF ~UserExists(targetUserId) THEN "not_found"
  ELSE IF ~targetUser.isActive THEN "not_found"
  ELSE IF isConnectedTo(reqUser, targetUserId) THEN "already_connected"
  ELSE IF hasReceivedRequestFrom(reqUser, targetUserId) THEN "already_received"
  ELSE "sent"

ConnectInfo(reqUser, u, targetUserId, targetUser) ==
  IF targetUserId = NoId THEN "invalid_id"
  ELSE IF u = targetUserId THEN "self"
  ELSE IF ~UserExists(targetUserId) THEN "not_found"
  ELSE IF ~targetUser.isActive THEN "not_found"
  ELSE IF isConnectedTo(reqUser, targetUserId) THEN "already_connected"
  ELSE IF hasSentRequestTo(reqUser, targetUserId) \/ hasReceivedRequestFrom(targetUser, u)
       THEN "already_pending"
  ELSE IF hasReceivedRequestFrom(reqUser, targetUserId) THEN "already_received"
  ELSE "sent"

InfoStatus(info) ==
  IF info \in {"invalid_id", "self", "invalid_action"} THEN 400
  ELSE IF info = "not_found" THEN 404
  ELSE 200

\* targetUser.connectionRequests.push({ from: currentUserId })
PushConnectionRequest(targetUser, currentUserId) ==
  [targetUser EXCEPT !.connectionRequests = Append(@, currentUserId)]

\* req.user.sentRequests.push({ to: targetUserId })
PushSentRequest(reqUser, targetUserId) ==
  [reqUser EXCEPT !.sentRequests = Append(@, targetUserId)]

\* Notification.create, then the emit to the recipient's room; a failed create
\* is caught and emits nothing
Notify(recipientId, senderId, type, notifOk) ==
  IF notifOk THEN Append(notifications, NewNotification(recipientId, senderId, type))
  ELSE notifications

\* an emit that does not wait for the record
NotifyEvents_Always(recipientId, notifOk) ==
  <<Event("notification:new", recipientId, Len(notifications) + 1)>>

NotifyEvents(recipientId, notifOk) ==
  IF notifOk THEN <<Event("notification:new", recipientId, Len(notifications) + 1)>>
  ELSE <<>>

\* the handler, with room for `room` records in the Notification Log
SendRequestWithin(room, u, targetUserId, notifOk) ==
  LET reqUser == ReqUser(u)
      targetUser == IF UserExists(targetUserId) THEN users[targetUserId] ELSE NewUser(Ghost)
      info == ConnectInfo(reqUser, u, targetUserId, targetUser)
      afterTarget == [users EXCEPT ![targetUserId] = PushConnectionRequest(targetUser, u)]
  IN  /\ (info = "sent" /\ notifOk) => Len(notifications) < room
      /\ IF info = "sent"
         THEN /\ users' = [afterTarget EXCEPT ![u] = PushSentRequest(reqUser, targetUserId)]
              /\ notifications' = Notify(targetUserId, u, "CONNECTION_REQUEST", notifOk)
              /\ resp' = [Response("connect", 200) EXCEPT
                            !.info = info, !.events = NotifyEvents(targetUserId, notifOk)]
         ELSE /\ resp' = [Response("connect", InfoStatus(info)) EXCEPT
                            !.info = info]
              /\ UNCHANGED <<users, notifications>>
      /\ sockets' = Deliver(sockets, resp'.events)
      /\ UNCHANGED <<messages, reqs>>

SendRequest(u, targetUserId, notifOk) ==
  SendRequestWithin(MaxNotifs, u, targetUserId, notifOk)

-----------------------------------------------------------------------------
(* PUT /api/users/connect/:id: accept or reject a request                  *)

\* an answer that accepts without finding a request (C27 fails under it)
RespondInfo_NoRequestNeeded(reqUser, requestUserId, action) ==
  IF action \notin {"accept", "reject"} THEN "invalid_action"
  ELSE IF action = "accept" THEN "accepted"
  ELSE IF FindIndex(reqUser.connectionRequests, requestUserId) = 0 THEN "no_pending"
  ELSE "rejected"

RespondInfo(reqUser, requestUserId, action) ==
  IF action \notin {"accept", "reject"} THEN "invalid_action"
  ELSE IF FindIndex(reqUser.connectionRequests, requestUserId) = 0
       THEN IF isConnectedTo(reqUser, requestUserId) THEN "already_connected"
            ELSE "no_pending"
  ELSE IF action = "accept" THEN "accepted" ELSE "rejected"

\* req.user.connectionRequests.splice(requestIndex, 1)
RemoveRequest(reqUser, requestUserId) ==
  [reqUser EXCEPT !.connectionRequests =
     Splice(@, FindIndex(reqUser.connectionRequests, requestUserId))]

\* connections.push(id) unless already connected
AddConnection(user, id) ==
  IF isConnectedTo(user, id) THEN user
  ELSE [user EXCEPT !.connections = Append(@, id)]

\* requestUser.sentRequests = requestUser.sentRequests.filter(r => r.to !== currentUserId)
RemoveSentRequest(requestUser, currentUserId) ==
  [requestUser EXCEPT !.sentRequests = Filter(@, currentUserId)]

\* the accept branch on the requester's document
AcceptOnRequester(requestUser, currentUserId) ==
  RemoveSentRequest(AddConnection(requestUser, currentUserId), currentUserId)

AcceptEvents(u, requestUserId, notifOk) ==
  IF notifOk
  THEN <<Event("notification:new", requestUserId, Len(notifications) + 1),
         Event("connection:accepted", requestUserId, u),
         Event("connection:accepted", u, requestUserId)>>
  ELSE <<>>

\* the handler, with room for `room` records in the Notification Log
RespondRequestWithin(room, u, requestUserId, action, notifOk) ==
  LET reqUser == ReqUser(u)
      info == RespondInfo(reqUser, requestUserId, action)
      removed == RemoveRequest(reqUser, requestUserId)
      accepted == AddConnection(removed, requestUserId)
      afterRequester ==
        IF UserExists(requestUserId)
        THEN [users EXCEPT ![requestUserId] = AcceptOnRequester(users[requestUserId], u)]
        ELSE users
  IN  /\ (info = "accepted" /\ notifOk) => Len(notifications) < room
      /\ resp' = [Response("respond", InfoStatus(info)) EXCEPT
                    !.info = info,
                    !.events = IF info = "accepted"
                               THEN AcceptEvents(u, requestUserId, notifOk) ELSE <<>>]
      /\ users' = IF info = "accepted" THEN [afterRequester EXCEPT ![u] = accepted]
                  ELSE IF info = "rejected"
                       THEN [users EXCEPT ![u] = removed]
                  ELSE users
      /\ notifications' = IF info = "accepted"
                          THEN Notify(requestUserId, u, "CONNECTION_ACCEPTED", notifOk)
                          ELSE notifications
      /\ sockets' = Deliver(sockets, resp'.events)
      /\ UNCHANGED <<messages, reqs>>

RespondRequest(u, requestUserId, action, notifOk) ==
  RespondRequestWithin(MaxNotifs, u, requestUserId, action, notifOk)

-----------------------------------------------------------------------------
(* DELETE /api/users/connect/:id: remove a connection                      *)

\* connections.filter(id => id !== other)
DropConnection(user, other) == [user EXCEPT !.connections = Filter(@, other)]

RemoveConnection(u, targetUserId) ==
  LET reqUser == DropConnection(ReqUser(u), targetUserId)
      afterTarget ==
        IF UserExists(targetUserId)
        THEN [users EXCEPT ![targetUserId] = DropConnection(users[targetUserId], u)]
        ELSE users
  IN  /\ users' = [afterTarget EXCEPT ![u] = reqUser]
      /\ resp' = Response("disconnect", 200)
      /\ UNCHANGED <<messages, notifications, reqs, sockets>>

-----------------------------------------------------------------------------
(* Requests in flight: a handler between two of its awaits                 *)

Slots == 1..MaxInFlight

\* a slot no request occupies
IdleRequest ==
  [op |-> "none", u |-> NoId, other |-> NoId, pc |-> "idle",
   reqUser |-> NewUser(Ghost), otherDoc |-> NewUser(Ghost)]

NoRequests == [s \in Slots |-> IdleRequest]

-----------------------------------------------------------------------------
(* The messages router over a given connection graph                       *)

\* a connection graph the connection handlers reach (a accepted b, d accepted a):
\* a is connected to b and to the admin d, b and d are not connected
InitialConnections ==
  [u \in UserIds |-> IF u = "a" THEN <<"b", "d">> ELSE <<"a">>]


Init ==
  /\ users = [u \in UserIds |-> [NewUser(u) EXCEPT !.connections = InitialConnections[u]]]
  /\ messages = <<>>
  /\ notifications = <<>>
  /\ resp = Response("none", 0)
  /\ reqs = NoRequests
  /\ sockets = NoSockets

SendContents == {Text(0, FALSE), Text(1, FALSE)}

\* the users who end a connection
Members == {"a", "b"}

Next ==
  \E u \in UserIds :
    \/ \E receiverId \in Ids, content \in SendContents :
         SendMessage(u, receiverId, content, "text", NoUrl, TRUE)
    \/ \E sender \in UserIds :
         \E receiver \in UserIds \ {sender} :
           GetThread(u, sender, receiver, 1, DefaultLimit)
    \/ \E userId \in Ids, q \in PageQueries :
         GetConversation(u, userId, q.page, q.limit)
    \/ \E userId \in Ids : MarkConversationRead(u, userId)
    \/ \E otherId \in Ids : GetPair(u, otherId)
    \/ GetConversations(u)
    \/ \E id \in 1..(Len(messages) + 1) : DeleteMessage(u, id)
    \/ \E targetUserId \in Members : u \in Members /\ RemoveConnection(u, targetUserId)

Spec == Init /\ [][Next]_vars

-----------------------------------------------------------------------------
(* The connection handlers, each run to completion, from empty lists       *)

InitConn ==
  /\ users = [u \in UserIds |-> NewUser(u)]
  /\ messages = <<>>
  /\ notifications = <<>>
  /\ resp = Response("none", 0)
  /\ reqs = NoRequests
  /\ sockets = NoSockets

Actions == {"accept", "reject", "block"}

NextConn ==
  \E u \in UserIds :
    \/ \E targetUserId \in Ids \cup {NoId}, notifOk \in BOOLEAN :
         SendRequest(u, targetUserId, notifOk)
    \/ \E requestUserId \in UserIds, action \in Actions, notifOk \in BOOLEAN :
         RespondRequest(u, requestUserId, action, notifOk)
    \/ \E targetUserId \in Ids : RemoveConnection(u, targetUserId)

SpecConn == InitConn /\ [][NextConn]_vars

-----------------------------------------------------------------------------
(* The connection handlers step by step: every await is a point where      *)
(* another request runs; a save writes the handler's copy of the document  *)

\* the users whose requests are interleaved
RaceUsers == {"a", "b"}

\* authenticateToken loads req.user, then the handler runs up to its first await
BeginSendRequest(s, u, targetUserId) ==
  /\ reqs[s].pc = "idle"
  /\ reqs' = [reqs EXCEPT ![s] = [IdleRequest EXCEPT !.op = "connect", !.u = u,
                !.other = targetUserId, !.pc = "find", !.reqUser = users[u]]]
  /\ UNCHANGED <<users, messages, notifications, resp, sockets>>

\* targetUser = await User.findById(targetUserId), the checks and the two pushes
FindSendRequest(s) ==
  LET r == reqs[s]
      targetUser == users[r.other]
      info == ConnectInfo(r.reqUser, r.u, r.other, targetUser)
  IN  /\ r.pc = "find" /\ r.op = "connect"
      /\ IF info = "sent"
         THEN /\ reqs' = [reqs EXCEPT ![s].pc = "saveOther",
                            ![s].otherDoc = PushConnectionRequest(targetUser, r.u),
                            ![s].reqUser = PushSentRequest(r.reqUser, r.other)]
              /\ UNCHANGED resp
         ELSE /\ reqs' = [reqs EXCEPT ![s] = IdleRequest]
              /\ resp' = [Response("connect", InfoStatus(info)) EXCEPT !.info = info]
      /\ UNCHANGED <<users, messages, notifications, sockets>>

\* PUT: the lookup of the request in req.user, the splice and the push, up to
\* await User.findById(requestUserId) or, on reject, to await req.user.save()
BeginRespondRequest(s, u, requestUserId, action) ==
  LET reqUser == users[u]
      info == RespondInfo(reqUser, requestUserId, action)
      removed == RemoveRequest(reqUser, requestUserId)
  IN  /\ reqs[s].pc = "idle"
      /\ IF info = "accepted"
         THEN /\ reqs' = [reqs EXCEPT ![s] = [IdleRequest EXCEPT !.op = "accept", !.u = u,
                            !.other = requestUserId, !.pc = "find",
                            !.reqUser = AddConnection(removed, requestUserId)]]
              /\ UNCHANGED resp
         ELSE IF info = "rejected"
         THEN /\ reqs' = [reqs EXCEPT ![s] = [IdleRequest EXCEPT !.op = "reject", !.u = u,
                            !.other = requestUserId, !.pc = "saveSelf",
                            !.reqUser = removed]]
              /\ UNCHANGED resp
         ELSE /\ resp' = [Response("respond", InfoStatus(info)) EXCEPT !.info = info]
              /\ UNCHANGED reqs
      /\ UNCHANGED <<users, messages, notifications, sockets>>

\* requestUser = await User.findById(requestUserId), its push and its filter
FindRequester(s) ==
  LET r == reqs[s]
  IN  /\ r.pc = "find" /\ r.op = "accept"
      /\ reqs' = [reqs EXCEPT ![s].pc = "saveOther",
                    ![s].otherDoc = AcceptOnRequester(users[r.other], r.u)]
      /\ UNCHANGED <<users, messages, notifications, resp, sockets>>

\* DELETE: the filter of req.user.connections, up to await User.findById
BeginRemoveConnection(s, u, targetUserId) ==
  /\ reqs[s].pc = "idle"
  /\ reqs' = [reqs EXCEPT ![s] = [IdleRequest EXCEPT !.op = "disconnect", !.u = u,
                !.other = targetUserId, !.pc = "find",
                !.reqUser = DropConnection(users[u], targetUserId)]]
  /\ UNCHANGED <<users, messages, notifications, resp, sockets>>

\* targetUser = await User.findById(targetUserId) and its filter
FindRemoveTarget(s) ==
  LET r == reqs[s]
  IN  /\ r.pc = "find" /\ r.op = "disconnect"
      /\ reqs' = [reqs EXCEPT ![s].pc = "saveOther",
                    ![s].otherDoc = DropConnection(users[r.other], r.u)]
      /\ UNCHANGED <<users, messages, notifications, resp, sockets>>

\* await targetUser.save() / await requestUser.save()
SaveOther(s) ==
  LET r == reqs[s]
  IN  /\ r.pc = "saveOther"
      /\ users' = [users EXCEPT ![r.other] = r.otherDoc]
      /\ reqs' = [reqs EXCEPT ![s].pc = "saveSelf"]
      /\ UNCHANGED <<messages, notifications, resp, sockets>>

FinalInfo(op) ==
  IF op = "connect" THEN "sent"
  ELSE IF op = "accept" THEN "accepted"
  ELSE IF op = "reject" THEN "rejected"
  ELSE ""

\* await req.user.save(), the notification of the handler, and its answer
SaveSelf(s, notifOk) ==
  LET r == reqs[s]
      type == IF r.op = "connect" THEN "CONNECTION_REQUEST" ELSE "CONNECTION_ACCEPTED"
      notifies == r.op \in {"connect", "accept"}
  IN  /\ r.pc = "saveSelf"
      /\ (notifies /\ notifOk) => Len(notifications) < MaxNotifs
      /\ users' = [users EXCEPT ![r.u] = r.reqUser]
      /\ notifications' = IF notifies THEN Notify(r.other, r.u, type, notifOk)
                          ELSE notifications
      /\ resp' = [Response(IF r.op \in {"accept", "reject"} THEN "respond" ELSE r.op, 200)
                    EXCEPT !.info = FinalInfo(r.op),
                           !.events = IF r.op = "connect" THEN NotifyEvents(r.other, notifOk)
                                      ELSE IF r.op = "accept"
                                           THEN AcceptEvents(r.u, r.other, notifOk)
                                      ELSE <<>>]
      /\ reqs' = [reqs EXCEPT ![s] = IdleRequest]
      /\ sockets' = Deliver(sockets, resp'.events)
      /\ UNCHANGED messages

NextRace ==
  \E s \in Slots :
    \/ \E u \in RaceUsers : \E targetUserId \in RaceUsers \ {u} : BeginSendRequest(s, u, targetUserId)
    \/ FindSendRequest(s)
    \/ \E u \in RaceUsers : \E requestUserId \in RaceUsers \ {u}, action \in {"accept", "reject"} :
         BeginRespondRequest(s, u, requestUserId, action)
    \/ FindRequester(s)
    \/ \E u \in RaceUsers : \E targetUserId \in RaceUsers \ {u} : BeginRemoveConnection(s, u, targetUserId)
    \/ FindRemoveTarget(s)
    \/ SaveOther(s)
    \/ \E notifOk \in BOOLEAN : SaveSelf(s, notifOk)

SpecRace == InitConn /\ [][NextRace]_vars

-----------------------------------------------------------------------------
(* Properties of POST /api/messages                                        *)

\* the sender is no admin and the existing receiver is not among its connections
Unconnected(u, receiverId) ==
  /\ UserExists(receiverId)
  /\ ~Contains(users[u].connections, receiverId)
  /\ users[u].role # "admin"

\* nothing was persisted and nothing was pushed
NothingSent ==
  /\ messages' = messages
  /\ notifications' = notifications
  /\ resp'.events = <<>>

\* C1 as stated: every POST /messages of a non-admin sender to an existing user
\* outside its connections is answered 403, the Message Log and the Notification
\* Log stay as they are and no event is emitted.
C1_Original ==
  [][resp'.op = "send" =>
       \A u \in UserIds, receiverId \in Ids :
         Unconnected(u, receiverId) =>
           \A content \in SendContents :
             SendMessage(u, receiverId, content, "text", NoUrl, TRUE)
               => (resp'.status = 403 /\ NothingSent)]_vars

\* C1 as amended: such a POST is answered 403 when its body passes the input
\* validation and 400 when it does not; either way the two logs stay as they are
\* and no message:new, receive_message or notification:new is emitted.
C1_UnconnectedSendRejected ==
  [][resp'.op = "send" =>
       \A u \in UserIds, receiverId \in Ids :
         Unconnected(u, receiverId) =>
           \A content \in SendContents :
             SendMessage(u, receiverId, content, "text", NoUrl, TRUE)
               => /\ NothingSent
                  /\ resp'.status = IF ContentValid(content) THEN 403 ELSE 400]_vars

\* a send was answered 403 while a message of another sender is in the log
C1_Witness ==
  /\ resp.op = "send" /\ resp.status = 403
  /\ messages # <<>>

\* the message a successful send appends
Appended(u, receiverId) ==
  /\ Len(messages') = Len(messages) + 1
  /\ SubSeq(messages', 1, Len(messages)) = messages
  /\ messages'[Len(messages')].senderId = u
  /\ messages'[Len(messages')].receiverId = receiverId
  /\ messages'[Len(messages')].isRead = FALSE
  /\ messages'[Len(messages')].isDeleted = FALSE
  /\ \A i \in 1..Len(messages) : messages'[Len(messages')]._id # messages[i]._id

\* how often the message with this id occurs in a returned list
Occurrences(list, id) == Cardinality({j \in 1..Len(list) : list[j]._id = id})

\* the sender is no admin and has the existing receiver among its connections
Connected(u, receiverId) ==
  /\ users[u].role # "admin"
  /\ UserExists(receiverId)
  /\ Contains(users[u].connections, receiverId)

\* C2: a valid text send of a non-admin to one of its connections is answered
\* 201 and appends exactly one unread, undeleted message from the sender to the
\* receiver; a GET /messages/conversation by either party while they are
\* connected, whose page covers the conversation, holds every undeleted message
\* of the pair exactly once.
C2_SendThenFetch ==
  [][/\ resp'.op = "send" =>
          \A u \in UserIds, receiverId \in Ids :
            Connected(u, receiverId) =>
              \A content \in SendContents :
                (ContentValid(content) /\ SendMessage(u, receiverId, content, "text", NoUrl, TRUE))
                  => (resp'.status = 201 /\ Appended(u, receiverId))
     /\ resp'.op = "conversation" =>
          \A u \in UserIds, userId \in Ids :
            (Connected(u, userId) /\ GetConversation(u, userId, 1, DefaultLimit))
              => /\ resp'.status = 200
                 /\ \A i \in 1..Len(messages) :
                      Occurrences(resp'.messages, messages[i]._id) =
                        IF Between(messages[i], u, userId) /\ ~messages[i].isDeleted
                        THEN 1 ELSE 0]_vars

\* a conversation was fetched that holds two messages, one in each direction,
\* of two connected non-admin users
C2_Witness ==
  /\ resp.op = "conversation" /\ resp.status = 200
  /\ Len(resp.messages) = 2
  /\ resp.messages[1].senderId = "a" /\ resp.messages[1].receiverId = "b"
  /\ resp.messages[2].senderId = "b" /\ resp.messages[2].receiverId = "a"
  /\ Contains(users["a"].connections, "b")

-----------------------------------------------------------------------------
(* Properties of the history endpoints                                     *)

\* the requester is no admin and the other party is not among its connections
Stranger(u, otherId) ==
  /\ users[u].role # "admin"
  /\ ~Contains(users[u].connections, otherId)

Refused == resp'.status = 403 /\ resp'.messages = <<>>

\* C6 as stated: each of the three endpoints that return the history between
\* the requester and another user answers 403, with no messages, to a non-admin
\* requester who does not have the other party among its connections.
C6_Original ==
  [][/\ resp'.op = "conversation" =>
          \A u \in UserIds, userId \in Ids :
            Stranger(u, userId) =>
              \A q \in PageQueries : GetConversation(u, userId, q.page, q.limit) => Refused
     /\ resp'.op = "pair" =>
          \A u \in UserIds, otherId \in Ids :
            (Stranger(u, otherId) /\ GetPair(u, otherId)) => Refused
     /\ resp'.op = "thread" =>
          \A u \in UserIds, other \in UserIds :
            (other # u /\ Stranger(u, other)) =>
              /\ GetThread(u, u, other, 1, DefaultLimit) => Refused
              /\ GetThread(u, other, u, 1, DefaultLimit) => Refused]_vars

-----------------------------------------------------------------------------
(* Properties of read marking                                              *)

\* the messages of senderId to receiverId that are not deleted are all read
AllRead(senderId, receiverId) ==
  \A i \in 1..Len(messages) :
    (messages[i].senderId = senderId /\ messages[i].receiverId = receiverId
       /\ ~messages[i].isDeleted)
      => (messages[i].isRead /\ messages[i].readAt = SomeDate)

\* C7: PUT /messages/conversation/:userId/read is idempotent. A call of Y for X
\* that is let through reports the number of messages it marked and leaves
\* nothing to mark from X to Y; no step but a send brings such a message back;
\* and a call that finds nothing to mark reports updatedCount = 0 and changes no
\* message. So the second of two calls with no send in between reports 0 and
\* changes nothing.
C7_MarkReadIdempotent ==
  [][/\ resp'.op = "markRead" =>
          \A u \in UserIds, userId \in Ids :
            MarkConversationRead(u, userId) =>
              /\ resp'.status = 200 =>
                   /\ resp'.updatedCount = ModifiedCount(userId, u)
                   /\ (ModifiedCount(userId, u) = 0)'
                   /\ (MarkedRead(userId, u) = messages)'
              /\ ModifiedCount(userId, u) = 0 =>
                   /\ messages' = messages
                   /\ resp'.status = 200 => resp'.updatedCount = 0
     /\ (resp'.op # "send" /\ messages' # messages) =>
          \A u \in UserIds, userId \in Ids :
            ModifiedCount(userId, u) = 0 => (ModifiedCount(userId, u) = 0)']_vars

\* a call reported updatedCount = 0 although the log holds a message that an
\* earlier marking has set read
C7_Witness ==
  /\ resp.op = "markRead" /\ resp.status = 200 /\ resp.updatedCount = 0
  /\ \E i \in 1..Len(messages) :
       /\ messages[i].isRead /\ messages[i].readAt = SomeDate
       /\ messages[i].senderId = "a" /\ messages[i].receiverId = "b"

\* the requester a conversations entry was computed for
EntryOwner(e) == OtherUser(e.lastMessage, e._id)

\* C8: the copies GET /messages/conversation returns are the documents as they
\* were before the handler marked them read (a so far unread message of A comes
\* back to B with isRead = false) while the log then holds A's messages to B with
\* isRead = true and readAt set; the same holds in the log after B's markRead for
\* A; and every conversations list shows an unread count of 0 for a conversation
\* in which no undeleted unread message is addressed to the requester (the
\* sender's list throughout, the receiver's list after marking).
C8_ReadReceiptScenario ==
  [][/\ resp'.op = "conversation" =>
          /\ \A j \in 1..Len(resp'.messages) :
               resp'.messages[j] = messages[resp'.messages[j]._id]
          /\ resp'.status = 200 =>
               \A u \in UserIds, userId \in Ids :
                 GetConversation(u, userId, 1, DefaultLimit) => AllRead(userId, u)'
     /\ (resp'.op = "markRead" /\ resp'.status = 200) =>
          \A u \in UserIds, userId \in Ids :
            MarkConversationRead(u, userId) => AllRead(userId, u)'
     /\ resp'.op = "conversations" =>
          \A j \in 1..Len(resp'.conversations) :
            LET e == resp'.conversations[j]
            IN  ModifiedCount(e._id, EntryOwner(e)) = 0 => e.unreadCount = 0]_vars

\* B fetched the conversation with A: the returned copy of A's message is unread
\* and the log now holds it read, with readAt set
C8_Witness ==
  /\ resp.op = "conversation" /\ resp.status = 200
  /\ \E j \in 1..Len(resp.messages) :
       /\ resp.messages[j].senderId = "a" /\ resp.messages[j].receiverId = "b"
       /\ resp.messages[j].isRead = FALSE
       /\ messages[resp.messages[j]._id].isRead = TRUE
       /\ messages[resp.messages[j]._id].readAt = SomeDate

-----------------------------------------------------------------------------
(* Properties of the conversations list                                    *)

\* the undeleted messages between two users
Conversation(x, y) ==
  {i \in 1..Len(messages) : Between(messages[i], x, y) /\ ~messages[i].isDeleted}

\* the last response is a conversations list of a non-admin
ListAnswered == resp.op = "conversations" /\ resp.info = "user"

\* C9: a conversations list answered to a non-admin U has no entry for an other
\* party whose messages with U are all deleted, and the unreadCount of each entry
\* is the number of undeleted, unread messages of that conversation addressed
\* to U.
C9_ConversationEntries ==
  /\ ListAnswered =>
       \A j \in 1..Len(resp.conversations) :
         LET e == resp.conversations[j]
             u == EntryOwner(e)
         IN  /\ Conversation(u, e._id) # {}
             /\ e.unreadCount =
                  Cardinality({i \in Conversation(u, e._id) :
                     messages[i].receiverId = u /\ ~messages[i].isRead})
  /\ \A u \in UserIds : users[u].role # "admin" =>
       \A convs \in ConversationLists(u) :
         \A j \in 1..Len(convs) :
           /\ Conversation(u, convs[j]._id) # {}
           /\ convs[j].unreadCount =
                Cardinality({i \in Conversation(u, convs[j]._id) :
                   messages[i].receiverId = u /\ ~messages[i].isRead})

\* a list with an entry counting one unread message was answered while a deleted
\* and an undeleted message are in the log
C9_Witness ==
  /\ ListAnswered
  /\ \E j \in 1..Len(resp.conversations) : resp.conversations[j].unreadCount = 1
  /\ \E i \in 1..Len(messages) : messages[i].isDeleted
  /\ \E i \in 1..Len(messages) : ~messages[i].isDeleted

\* C10 as stated: each entry of a non-admin's conversations list carries the
\* most recently created undeleted message of its conversation as lastMessage,
\* and the entries are ordered by lastMessage.createdAt descending.
C10_Original ==
  ListAnswered =>
    /\ \A j \in 1..Len(resp.conversations) :
         LET e == resp.conversations[j]
         IN  \A i \in Conversation(EntryOwner(e), e._id) :
               messages[i].createdAt <= e.lastMessage.createdAt
    /\ \A j, k \in 1..Len(resp.conversations) :
         j < k => resp.conversations[j].lastMessage.createdAt
                    >= resp.conversations[k].lastMessage.createdAt

-----------------------------------------------------------------------------
(* Properties of the connection records                                    *)

MutuallyConnected(x, y) ==
  Contains(users[x].connections, y) /\ Contains(users[y].connections, x)

\* x has a pending request to y, by either of the two records
Pending(x, y) ==
  Contains(users[x].sentRequests, y) \/ Contains(users[y].connectionRequests, x)

\* the pairs of distinct users
Pairs == {p \in UserIds \X UserIds : p[1] # p[2]}

\* C3 as stated: after any sequence of completed connect, accept, reject and
\* remove operations a pair of users is in at most one of mutually connected,
\* first pending to second, second pending to first; and users one of whom has
\* the other among its connections have no pending request between them.
C3_Original ==
  \A p \in Pairs :
    /\ ~(MutuallyConnected(p[1], p[2]) /\ Pending(p[1], p[2]))
    /\ ~(Pending(p[1], p[2]) /\ Pending(p[2], p[1]))
    /\ Contains(users[p[1]].connections, p[2])
         => ~Pending(p[1], p[2]) /\ ~Pending(p[2], p[1])

\* C4 as stated: after any sequence of completed connect, accept, reject and
\* remove operations, B is in A.sentRequests exactly if A is in
\* B.connectionRequests.
C4_Original ==
  \A p \in Pairs :
    Contains(users[p[1]].sentRequests, p[2])
      <=> Contains(users[p[2]].connectionRequests, p[1])

\* no handler is between two of its steps
AllCompleted == \A s \in Slots : reqs[s].pc = "idle"

\* C5 as stated: whenever all interleaved connect, accept, reject and remove
\* handlers have completed, B is in A.connections exactly if A is in
\* B.connections.
C5_Original ==
  AllCompleted =>
    \A p \in Pairs :
      Contains(users[p[1]].connections, p[2]) <=> Contains(users[p[2]].connections, p[1])

-----------------------------------------------------------------------------
(* PUT and DELETE /api/messages/:id/reaction                               *)

MaxEmojiLength == 10

\* req.body.emoji: what it shows and how long it is
Emoji(name, len) == [name |-> name, len |-> len]

NoEmoji == Emoji("", 0)

EmojiValid(emoji) == emoji.len >= 1 /\ emoji.len <= MaxEmojiLength

\* the index of the first reaction of the user, 0 if there is none
FindReaction(reactions, userId) ==
  IF \E i \in 1..Len(reactions) : reactions[i].userId = userId
  THEN CHOOSE i \in 1..Len(reactions) :
         /\ reactions[i].userId = userId
         /\ \A j \in 1..(i - 1) : reactions[j].userId # userId
  ELSE 0

\* a method that pushes without looking for an existing reaction (C11 fails
\* under it)
addReaction_Push(message, userId, emoji) ==
  [message EXCEPT !.reactions = Append(@, [userId |-> userId, emoji |-> emoji.name])]

\* messageSchema.methods.addReaction
addReaction(message, userId, emoji) ==
  LET existingReaction == FindReaction(message.reactions, userId)
  IN  IF existingReaction # 0
      THEN [message EXCEPT !.reactions[existingReaction].emoji = emoji.name]
      ELSE [message EXCEPT !.reactions = Append(@, [userId |-> userId, emoji |-> emoji.name])]

\* messageSchema.methods.removeReaction
removeReaction(message, userId) ==
  [message EXCEPT !.reactions = SelectSeq(@, LAMBDA r : r.userId # userId)]

ReactStatus(id, emoji) ==
  IF ~EmojiValid(emoji) THEN 400
  ELSE IF id \notin 1..Len(messages) THEN 404
  ELSE 200

React(u, id, emoji) ==
  LET status == ReactStatus(id, emoji)
  IN  /\ resp' = Response("react", status)
      /\ messages' = IF status = 200
                     THEN [messages EXCEPT ![id] = addReaction(@, u, emoji)]
                     ELSE messages
      /\ UNCHANGED <<users, notifications, reqs, sockets>>

Unreact(u, id) ==
  LET found == id \in 1..Len(messages)
  IN  /\ resp' = Response("unreact", IF found THEN 200 ELSE 404)
      /\ messages' = IF found
                     THEN [messages EXCEPT ![id] = removeReaction(@, u)]
                     ELSE messages
      /\ UNCHANGED <<users, notifications, reqs, sockets>>

\* the emoji bodies tried: two valid ones, none, and one of eleven characters
Emojis == {Emoji("up", 1), Emoji("fire", 1), NoEmoji, Emoji("long", MaxEmojiLength + 1)}

\* the messages router with its reaction routes, over messages of a to b
NextReact ==
  \/ SendMessage("a", "b", Text(1, FALSE), "text", NoUrl, TRUE)
  \/ \E u \in Members, id \in 1..(Len(messages) + 1), emoji \in Emojis : React(u, id, emoji)
  \/ \E u \in Members, id \in 1..(Len(messages) + 1) : Unreact(u, id)

SpecReact == Init /\ [][NextReact]_vars

\* the reactions of one user on a message
ReactionsOf(message, userId) == SelectSeq(message.reactions, LAMBDA r : r.userId = userId)

\* the reactions of everyone else on a message
ReactionsOfOthers(message, userId) == SelectSeq(message.reactions, LAMBDA r : r.userId # userId)

\* C11: reacting is an upsert keyed by user. In every state reached by
\* sequentially executed reaction calls a message holds at most one reaction per
\* user; a call that is let through leaves exactly one reaction of the caller on
\* the message, with the emoji of that call, leaves the reactions of the other
\* users and the other messages as they were; a call that is refused changes
\* nothing.
C11_ReactionUpsert ==
  [][resp'.op = "react" =>
       \A u \in Members, id \in 1..(Len(messages) + 1), emoji \in Emojis :
         React(u, id, emoji) =>
           IF resp'.status = 200
           THEN /\ ReactionsOf(messages'[id], u) = <<[userId |-> u, emoji |-> emoji.name]>>
                /\ ReactionsOfOthers(messages'[id], u) = ReactionsOfOthers(messages[id], u)
                /\ \A v \in UserIds : Len(ReactionsOf(messages'[id], v)) <= 1
                /\ \A i \in 1..Len(messages) : i # id => messages'[i] = messages[i]
           ELSE messages' = messages]_vars

\* a user who had reacted with one emoji has reacted again with another: the
\* message holds the later emoji of that user next to the reaction of another
C11_Witness ==
  /\ resp.op = "react" /\ resp.status = 200
  /\ Len(messages) >= 1
  /\ messages[1].reactions = <<[userId |-> "b", emoji |-> "fire"], [userId |-> "a", emoji |-> "up"]>>

-----------------------------------------------------------------------------
(* Properties of DELETE /api/messages/:id                                  *)

\* the requester is the sender or the receiver of the message
Participant(u, id) == messages[id].senderId = u \/ messages[id].receiverId = u

\* the record stays in the store with its identity, and a deleted one stays deleted
RecordsKept ==
  /\ Len(messages') >= Len(messages)
  /\ \A i \in 1..Len(messages) :
       /\ messages'[i]._id = messages[i]._id
       /\ messages'[i].senderId = messages[i].senderId
       /\ messages'[i].receiverId = messages[i].receiverId
       /\ messages[i].isDeleted => messages'[i].isDeleted

\* C12: DELETE /messages/:id of an existing message answers 200 exactly when the
\* requester is its sender or its receiver; it then sets isDeleted, appends the
\* requester to deletedBy and leaves the rest of the record and the other
\* records as they are; for any other requester it answers 403 and changes
\* nothing; and no step of the messages router removes a record or sets
\* isDeleted back to false.
C12_SoftDelete ==
  [][/\ resp'.op = "delete" =>
          \A u \in UserIds, id \in 1..Len(messages) :
            DeleteMessage(u, id) =>
              IF Participant(u, id)
              THEN /\ resp'.status = 200
                   /\ messages' = [messages EXCEPT ![id].isDeleted = TRUE,
                                                   ![id].deletedAt = SomeDate,
                                                   ![id].deletedBy = Append(@, u)]
              ELSE /\ resp'.status = 403
                   /\ messages' = messages
     /\ messages' # messages => RecordsKept]_vars

\* a stranger to the message was refused after its receiver had deleted it, and
\* the record is still in the log
C12_Witness ==
  /\ resp.op = "delete" /\ resp.status = 403
  /\ \E i \in 1..Len(messages) :
       /\ messages[i].isDeleted
       /\ messages[i].deletedBy = <<messages[i].receiverId>>

-----------------------------------------------------------------------------
(* POST /api/messages over the bodies a client can send                    *)

\* req.body.content: missing, empty, blank, short, of 2000 and of 2001 characters
AllContents ==
  {NoContent, Text(0, FALSE), Text(1, TRUE), Text(1, FALSE),
   Text(MaxContentLength, FALSE), Text(MaxContentLength + 1, FALSE)}

\* req.body.messageType: two of the enum and one outside it
SentTypes == {"text", "image", "video"}

\* req.body.mediaUrl: absent, empty, well-formed, malformed
SentUrls == {NoUrl, EmptyUrl, "https://m", "ftp://m"}

Body(content, messageType, mediaUrl) ==
  [content |-> content, messageType |-> messageType, mediaUrl |-> mediaUrl]

\* the bodies tried: every content as a plain text message, and every
\* messageType and mediaUrl with a short content
SendBodies ==
  {Body(content, "text", NoUrl) : content \in AllContents}
    \cup {Body(Text(1, FALSE), messageType, mediaUrl) :
            messageType \in SentTypes, mediaUrl \in SentUrls}

NextSend ==
  \E u \in UserIds, receiverId \in Ids \cup {NoId}, body \in SendBodies, notifOk \in BOOLEAN :
    SendMessage(u, receiverId, body.content, body.messageType, body.mediaUrl, notifOk)

\* a log that holds one message, which a sent to its connection b
InitSend ==
  /\ users = [u \in UserIds |-> [NewUser(u) EXCEPT !.connections = InitialConnections[u]]]
  /\ messages = <<NewMessage(1, "a", "b", Text(1, FALSE), "text", NoUrl)>>
  /\ notifications = <<NewNotification("b", "a", "MESSAGE")>>
  /\ resp = Response("none", 0)
  /\ reqs = NoRequests
  /\ sockets = NoSockets

SpecSend == InitSend /\ [][NextSend]_vars

-----------------------------------------------------------------------------
(* Properties of the validation of POST /api/messages                      *)

\* the sender may message the existing receiver
Permitted(u, receiverId) ==
  /\ UserExists(receiverId)
  /\ users[u].role = "admin" \/ Contains(users[u].connections, receiverId)

\* missing, empty, blank, and of 2001 characters
InvalidContents ==
  {NoContent, Text(0, FALSE), Text(1, TRUE), Text(MaxContentLength + 1, FALSE)}

\* C13: a POST /messages whose content is missing, empty, blank or longer than
\* 2000 characters is answered with a 4xx status and leaves the Message Log and
\* the Notification Log as they are, whoever sends it to whomever; a text of
\* exactly 2000 characters from a sender who may message the receiver is
\* answered 201 and stored, and one of 2001 characters is among the rejected.
C13_ContentValidation ==
  [][resp'.op = "send" =>
       /\ \A content \in InvalidContents :
            \A u \in UserIds, receiverId \in Ids \cup {NoId} :
              SendMessage(u, receiverId, content, "text", NoUrl, TRUE) =>
                /\ resp'.status \in 400..499
                /\ messages' = messages
                /\ notifications' = notifications
       /\ \A u \in UserIds, receiverId \in Ids :
            Permitted(u, receiverId) =>
              \A notifOk \in BOOLEAN :
                SendMessage(u, receiverId, Text(MaxContentLength, FALSE), "text", NoUrl, notifOk) =>
                  /\ resp'.status = 201
                  /\ Len(messages') = Len(messages) + 1
                  /\ messages'[Len(messages')].content.len = MaxContentLength]_vars

\* a content of 2000 characters is in the log and the last send was refused
\* with 400
C13_Witness ==
  /\ resp.op = "send" /\ resp.status = 400
  /\ Len(messages) = 2 /\ messages[2].content.len = MaxContentLength

\* the messageType values of the enum that need a media reference
MediaTypes == MessageTypes \ {"text"}

\* C14 as stated: a send with messageType image, file or link and no mediaUrl
\* fails and persists no message, and every message in the log with such a
\* messageType has a mediaUrl.
C14_Original ==
  [][resp'.op = "send" =>
       /\ \A u \in UserIds, receiverId \in Ids :
            Permitted(u, receiverId) =>
              \A notifOk \in BOOLEAN :
                SendMessage(u, receiverId, Text(1, FALSE), "image", NoUrl, notifOk) =>
                  (resp'.status >= 400 /\ messages' = messages)
       /\ \A i \in 1..Len(messages') :
            messages'[i].messageType \in MediaTypes => messages'[i].mediaUrl # NoUrl]_vars

\* the users holding the admin role
Admins == {u \in UserIds : users[u].role = "admin"}

\* C15: a valid message sent by an admin to any existing user is answered 201
\* and appended to the log, whether or not the two are connected.
C15_AdminBypass ==
  [][resp'.op = "send" =>
       \A u \in Admins, receiverId \in UserIds :
         \A notifOk \in BOOLEAN :
           SendMessage(u, receiverId, Text(1, FALSE), "text", NoUrl, notifOk) =>
             /\ resp'.status = 201
             /\ Len(messages') = Len(messages) + 1
             /\ messages'[Len(messages')].senderId = u
             /\ messages'[Len(messages')].receiverId = receiverId]_vars

\* an admin's message to a user outside the admin's connections is in the log
C15_Witness ==
  /\ resp.op = "send"
  /\ resp.status = 201
  /\ \E i \in 1..Len(messages) :
       /\ messages[i].senderId \in Admins
       /\ ~Contains(users[messages[i].senderId].connections, messages[i].receiverId)

-----------------------------------------------------------------------------
(* The other handlers that notify: routes/posts.js and routes/jobs.js.     *)
(* The Post and Job collections are not part of the state: the document a  *)
(* handler finds is an input of its action.                                *)

\* the records the Notification Log holds at most in this part
MaxNotifLog == 2

\* Post.findById found nothing, or a deleted post
NoPost == NoId

\* Job.findById found nothing
NoJob == [postedBy |-> NoId, isActive |-> FALSE, applicants |-> {}]

\* author.connections.map(connId => ({ recipientId: connId, ... }))
PostNotifications(u) ==
  [i \in 1..Len(users[u].connections) |->
     NewNotification(users[u].connections[i], u, "POST_FROM_CONNECTION")]

\* notifications.find(n => n.recipientId.toString() === connId.toString())
FirstFor(docs, connId) ==
  CHOOSE i \in 1..Len(docs) :
    /\ docs[i].recipientId = connId
    /\ \A j \in 1..(i - 1) : docs[j].recipientId # connId

\* POST /api/posts: status is what the handler reached before the notifications
\* (400 invalid body, 500 a failed upload or save, 201 post saved); insertMany
\* stores the first `stored` records and throws unless that is all of them
CreatePost(u, status, stored) ==
  LET docs == PostNotifications(u)
      base == Len(notifications)
  IN  /\ stored \in 0..Len(docs)
      /\ base + Len(docs) <= MaxNotifLog
      /\ IF status = 201
         THEN /\ notifications' = notifications \o SubSeq(docs, 1, stored)
              /\ resp' = [Response("post", 201) EXCEPT
                            !.events =
                              IF stored = Len(docs)
                              THEN [i \in 1..Len(docs) |->
                                      Event("notification:new", docs[i].recipientId,
                                            base + FirstFor(docs, docs[i].recipientId))]
                              ELSE <<>>]
         ELSE /\ resp' = Response("post", status)
              /\ UNCHANGED notifications
      /\ sockets' = Deliver(sockets, resp'.events)
      /\ UNCHANGED <<users, messages, reqs>>

\* the try block of a handler that notifies one user
NotifyOne(op, status, notifies, recipientId, senderId, type, notifOk) ==
  /\ (notifies /\ notifOk) => Len(notifications) < MaxNotifLog
  /\ notifications' = IF notifies THEN Notify(recipientId, senderId, type, notifOk)
                      ELSE notifications
  /\ resp' = [Response(op, status) EXCEPT
                !.events = IF notifies THEN NotifyEvents(recipientId, notifOk) ELSE <<>>]

\* PUT /api/posts/:id/like
LikePost(u, owner, wasLiked, notifOk) ==
  /\ IF owner = NoPost
     THEN resp' = Response("like", 404) /\ UNCHANGED notifications
     ELSE NotifyOne("like", 200, ~wasLiked /\ owner # u, owner, u, "POST_LIKE", notifOk)
  /\ sockets' = Deliver(sockets, resp'.events)
  /\ UNCHANGED <<users, messages, reqs>>

\* POST /api/posts/:id/comment
CommentPost(u, owner, textValid, notifOk) ==
  /\ IF ~textValid
     THEN resp' = Response("comment", 400) /\ UNCHANGED notifications
     ELSE IF owner = NoPost
     THEN resp' = Response("comment", 404) /\ UNCHANGED notifications
     ELSE NotifyOne("comment", 200, owner # u, owner, u, "POST_COMMENT", notifOk)
  /\ sockets' = Deliver(sockets, resp'.events)
  /\ UNCHANGED <<users, messages, reqs>>

\* POST /api/posts/:id/share
SharePost(u, owner, notifOk) ==
  /\ IF owner = NoPost
     THEN resp' = Response("share", 404) /\ UNCHANGED notifications
     ELSE NotifyOne("share", 201, TRUE, owner, u, "POST_SHARED", notifOk)
  /\ sockets' = Deliver(sockets, resp'.events)
  /\ UNCHANGED <<users, messages, reqs>>

\* POST /api/jobs/:id/apply
ApplyStatus(u, coverOk, job) ==
  IF ~coverOk THEN 400
  ELSE IF job = NoJob THEN 404
  ELSE IF ~job.isActive THEN 400
  ELSE IF u \in job.applicants THEN 400
  ELSE 200

ApplyJob(u, coverOk, job, notifOk) ==
  LET status == ApplyStatus(u, coverOk, job)
  IN  /\ IF status = 200
         THEN NotifyOne("apply", 200, TRUE, job.postedBy, u, "JOB_APPLICATION", notifOk)
         ELSE resp' = Response("apply", status) /\ UNCHANGED notifications
      /\ sockets' = Deliver(sockets, resp'.events)
      /\ UNCHANGED <<users, messages, reqs>>

ApplicationStatuses == {"Pending", "Approved", "Rejected"}

\* `Congratulations! Your application for ${job.title} has been approved. ...`
\* with a title of one character
ApprovalLength == 100

\* PUT /api/jobs/:id/applications/:applicationId/status
UpdateStatus(u, status, job, applicant) ==
  IF status \notin ApplicationStatuses THEN 400
  ELSE IF job = NoJob THEN 404
  ELSE IF job.postedBy # u /\ users[u].role # "admin" THEN 403
  ELSE IF applicant \notin job.applicants THEN 404
  ELSE 200

\* an approval that writes its message for every role (C28 fails under it)
Approves_AnyRole(reqUser, status) == status = "Approved"

\* if (status === 'Approved' && req.user.role === 'admin')
Approves(reqUser, status) == status = "Approved" /\ reqUser.role = "admin"

UpdateApplication(u, status, job, applicant, notifOk, messageOk) ==
  LET code == UpdateStatus(u, status, job, applicant)
      id == Len(messages) + 1
      approves == notifOk /\ Approves(users[u], status)
      sends == approves /\ messageOk
  IN  /\ (code = 200 /\ notifOk) => Len(notifications) < MaxNotifLog
      /\ (code = 200 /\ sends) => Len(messages) < MaxMsgs
      /\ IF code = 200
         THEN /\ notifications' = Notify(applicant, u, "JOB_APPLICATION_UPDATE", notifOk)
              /\ messages' =
                   IF sends
                   THEN Append(messages, NewMessage(id, u, applicant,
                                                    Text(ApprovalLength, FALSE), "text", NoUrl))
                   ELSE messages
              /\ resp' = [Response("application", 200) EXCEPT
                            !.events = NotifyEvents(applicant, notifOk) \o
                                       (IF sends THEN <<Event("message:new", applicant, id)>>
                                        ELSE <<>>)]
         ELSE /\ resp' = Response("application", code)
              /\ UNCHANGED <<messages, notifications>>
      /\ sockets' = Deliver(sockets, resp'.events)
      /\ UNCHANGED <<users, reqs>>

\* the posts and the jobs the handlers find
Owners == {"a", NoPost}

Jobs ==
  {NoJob, [postedBy |-> "d", isActive |-> FALSE, applicants |-> {}]} \cup
  [postedBy : {"d"}, isActive : {TRUE}, applicants : {{}, {"b"}}]

NextNotify ==
  \/ \E notifOk \in BOOLEAN :
       /\ Len(notifications) < MaxNotifLog
       /\ SendMessage("a", "b", Text(1, FALSE), "text", NoUrl, notifOk)
  \/ \E targetUserId \in {"d", Ghost}, notifOk \in BOOLEAN :
       SendRequestWithin(MaxNotifLog, "b", targetUserId, notifOk)
  \/ \E action \in Actions, notifOk \in BOOLEAN :
       RespondRequestWithin(MaxNotifLog, "d", "b", action, notifOk)
  \/ \E u \in Members, status \in {400, 500, 201}, stored \in 0..MaxNotifLog :
       CreatePost(u, status, stored)
  \/ \E u \in Members, owner \in Owners, wasLiked \in BOOLEAN, notifOk \in BOOLEAN :
       LikePost(u, owner, wasLiked, notifOk)
  \/ \E u \in Members, owner \in Owners, textValid \in BOOLEAN, notifOk \in BOOLEAN :
       CommentPost(u, owner, textValid, notifOk)
  \/ \E owner \in Owners, notifOk \in BOOLEAN :
       SharePost("b", owner, notifOk)
  \/ \E coverOk \in BOOLEAN, job \in Jobs, notifOk \in BOOLEAN :
       ApplyJob("b", coverOk, job, notifOk)
  \/ \E u \in {"a", "d"}, status \in {"Approved", "Rejected", "Other"}, job \in Jobs :
       \E notifOk \in BOOLEAN, messageOk \in BOOLEAN :
         UpdateApplication(u, status, job, "b", notifOk, messageOk)

SpecNotify == Init /\ [][NextNotify]_vars

\* the notification:new events of an answer
NotificationEvents(r) ==
  {i \in 1..Len(r.events) : r.events[i].name = "notification:new"}

\* the places of the log written by a step
Written == (Len(notifications) + 1)..Len(notifications')

\* C16: in a handler that pushes notification:new, each such event announces a
\* record that the handler has written to the Notification Log, addressed to
\* the room of its recipient; a handler whose write failed emits none.
C16_PersistBeforeEmit ==
  [][/\ \A i \in NotificationEvents(resp') :
          /\ resp'.events[i].ref \in Written
          /\ notifications'[resp'.events[i].ref].recipientId = resp'.events[i].room
     /\ SubSeq(notifications', 1, Len(notifications)) = notifications]_vars

\* every kind of notifying handler has written its record and emitted its event
C16_Witness ==
  /\ NotificationEvents(resp) # {}
  /\ Len(notifications) = MaxNotifLog
  /\ notifications[1].type = "CONNECTION_ACCEPTED"
  /\ notifications[2].type = "JOB_APPLICATION_UPDATE"

-----------------------------------------------------------------------------
(* The notifications router. A record is named by its place in the log;    *)
(* place 0 stands for an id that is not an ObjectId, a place past the end  *)
(* for an id no record has.                                                *)

\* the records the Notification Log holds at most in this part
MaxInbox == 3

\* a filter without the recipient
Owns_Any(u, n) == TRUE

\* the filter { recipientId: req.user._id }
Owns(u, n) == n.recipientId = u

\* the record a filter { _id: id, recipientId: req.user._id } finds, or 0
FindOwned(u, id) ==
  IF id \in 1..Len(notifications) /\ Owns(u, notifications[id]) THEN id ELSE 0

\* PUT /api/notifications/:id/read
MarkNotificationRead(u, id) ==
  /\ IF id = 0
     THEN resp' = Response("notif_read", 500) /\ UNCHANGED notifications
     ELSE IF FindOwned(u, id) = 0
     THEN resp' = Response("notif_read", 404) /\ UNCHANGED notifications
     ELSE /\ notifications' = [notifications EXCEPT ![id].isRead = TRUE]
          /\ resp' = Response("notif_read", 200)
  /\ UNCHANGED <<users, messages, reqs, sockets>>

\* PUT /api/notifications/read-all
MarkAllNotificationsRead(u) ==
  /\ notifications' =
       [i \in 1..Len(notifications) |->
          IF Owns(u, notifications[i]) /\ ~notifications[i].isRead
          THEN [notifications[i] EXCEPT !.isRead = TRUE]
          ELSE notifications[i]]
  /\ resp' = Response("notif_read_all", 200)
  /\ UNCHANGED <<users, messages, reqs, sockets>>

\* DELETE /api/notifications/:id
DeleteNotification(u, id) ==
  /\ IF id = 0
     THEN resp' = Response("notif_delete", 500) /\ UNCHANGED notifications
     ELSE IF FindOwned(u, id) = 0
     THEN resp' = Response("notif_delete", 404) /\ UNCHANGED notifications
     ELSE /\ notifications' = Splice(notifications, id)
          /\ resp' = Response("notif_delete", 200)
  /\ UNCHANGED <<users, messages, reqs, sockets>>

\* POST /api/notifications: recipientId, type, title and message are checked,
\* then the record is saved with the caller as its sender
CreateNotification(u, recipientId, bodyValid, saved) ==
  /\ saved => Len(notifications) < MaxInbox
  /\ IF recipientId = NoId \/ ~bodyValid
     THEN resp' = Response("notif_create", 400) /\ UNCHANGED notifications
     ELSE IF ~saved
     THEN resp' = Response("notif_create", 500) /\ UNCHANGED notifications
     ELSE /\ notifications' = Append(notifications, NewNotification(recipientId, u, "MESSAGE"))
          /\ resp' = Response("notif_create", 201)
  /\ UNCHANGED <<users, messages, reqs, sockets>>

\* a log left by two sends and an accepted request
InitInbox ==
  /\ users = [u \in UserIds |-> [NewUser(u) EXCEPT !.connections = InitialConnections[u]]]
  /\ messages = <<>>
  /\ notifications = <<NewNotification("b", "a", "MESSAGE"),
                       NewNotification("a", "b", "MESSAGE")>>
  /\ resp = Response("none", 0)
  /\ reqs = NoRequests
  /\ sockets = NoSockets

NextInbox ==
  \E u \in Members :
    \/ \E id \in 0..(Len(notifications) + 1) : MarkNotificationRead(u, id)
    \/ MarkAllNotificationsRead(u)
    \/ \E id \in 0..(Len(notifications) + 1) : DeleteNotification(u, id)
    \/ \E recipientId \in Members \cup {NoId}, bodyValid \in BOOLEAN, saved \in BOOLEAN :
         CreateNotification(u, recipientId, bodyValid, saved)

SpecInbox == InitInbox /\ [][NextInbox]_vars

\* the places of the log whose record is addressed to someone other than u
NotOf(u) == {i \in 1..Len(notifications) : notifications[i].recipientId # u}

\* C17: marking read or deleting a notification addressed to someone else is
\* answered 404 and changes nothing; marking all read as u leaves every
\* notification addressed to someone else as it was, and changes nothing but
\* isRead on the others.
C17_RecipientScoped ==
  [][\A u \in Members :
       /\ \A id \in NotOf(u) :
            (MarkNotificationRead(u, id) \/ DeleteNotification(u, id)) =>
              (resp'.status = 404 /\ notifications' = notifications)
       /\ MarkAllNotificationsRead(u) =>
            /\ Len(notifications') = Len(notifications)
            /\ \A i \in NotOf(u) : notifications'[i] = notifications[i]
            /\ \A i \in 1..Len(notifications) :
                 notifications'[i] = [notifications[i] EXCEPT !.isRead = notifications'[i].isRead]]_vars

\* a refused request on someone else's unread notification, next to an own one
\* already read
C17_Witness ==
  /\ resp.op \in {"notif_read", "notif_delete"}
  /\ resp.status = 404
  /\ \E i, j \in 1..Len(notifications) :
       /\ notifications[i].recipientId = "a" /\ ~notifications[i].isRead
       /\ notifications[j].recipientId = "b" /\ notifications[j].isRead

-----------------------------------------------------------------------------
(* POST /api/messages over a socket server and a notification store that   *)
(* can fail                                                                *)

\* how many of the two emits of the first try block ran
Pushes == 0..2

NextPush ==
  \E u \in UserIds, receiverId \in Ids :
    \E pushed \in Pushes, stored \in BOOLEAN, notified \in BOOLEAN :
      SendMessageWith(u, receiverId, Text(1, FALSE), "text", NoUrl, pushed, stored, notified)

SpecPush == Init /\ [][NextPush]_vars

\* C18: a send whose real-time push or whose MESSAGE notification fails is
\* answered 201 with the message, and the message is in the log.
C18_PushFailureContained ==
  [][resp'.op = "send" =>
       \A u \in UserIds, receiverId \in UserIds :
         Permitted(u, receiverId) =>
           \A pushed \in Pushes, stored \in BOOLEAN, notified \in BOOLEAN :
             (/\ pushed < 2 \/ ~stored \/ ~notified
              /\ SendMessageWith(u, receiverId, Text(1, FALSE), "text", NoUrl,
                                 pushed, stored, notified)) =>
               /\ resp'.status = 201
               /\ Len(messages') = Len(messages) + 1
               /\ messages'[Len(messages')].senderId = u
               /\ messages'[Len(messages')].receiverId = receiverId
               /\ resp'.messages = <<messages'[Len(messages')]>>]_vars

\* a send answered 201 although nothing was pushed and no notification stored
C18_Witness ==
  /\ resp.op = "send"
  /\ resp.status = 201
  /\ resp.events = <<>>
  /\ Len(messages) = 1
  /\ notifications = <<>>

-----------------------------------------------------------------------------
(* The socket server: io.on('connection'), the relays of client events and *)
(* the disconnect handler, next to POST /api/messages and the conversation *)

\* authenticateSocket: the user of the token, or no user for a bad token
AuthenticateSocket(token) == IF token \in UserIds THEN token ELSE NoId

\* a connection that is sent, on opening, the messages stored for its user
OpenSocket_Replay(userId) ==
  [userId |-> userId, open |-> TRUE,
   received |-> {Event("message:new", userId, messages[i]._id) :
                   i \in {j \in 1..Len(messages) : messages[j].receiverId = userId}}]

\* a new connection: socket.join(socket.userId), nothing received yet
OpenSocket(userId) == [userId |-> userId, open |-> TRUE, received |-> {}]

\* io.on('connection') behind io.use(authenticateSocket)
Connect(h, token) ==
  /\ ~sockets[h].open
  /\ sockets' = IF AuthenticateSocket(token) = NoId THEN sockets
                ELSE [sockets EXCEPT ![h] = OpenSocket(AuthenticateSocket(token))]
  /\ UNCHANGED <<users, messages, notifications, resp, reqs>>

\* the payload of an event relayed for a client: the client's data, not a record
ClientData == 0

\* socket.to(room).emit(name, data): the sockets of the room other than h
Relay(h, name, room) ==
  /\ sockets[h].open
  /\ sockets' = [k \in Handles |->
                   IF k # h /\ k \in InRoom(sockets, room)
                   THEN [sockets[k] EXCEPT !.received = @ \cup {Event(name, room, ClientData)}]
                   ELSE sockets[k]]
  /\ UNCHANGED <<users, messages, notifications, resp, reqs>>

\* socket.broadcast.emit(name, ...): every connected socket other than h
Broadcast(socks, h, name, ref) ==
  [k \in Handles |->
     IF k # h /\ socks[k].open
     THEN [socks[k] EXCEPT !.received = @ \cup {Event(name, "*", ref)}]
     ELSE socks[k]]

\* socket.on('disconnect'): the socket has left its rooms; the others are sent
\* { userId: socket.userId, status: 'offline' }
Disconnect(h) ==
  /\ sockets[h].open
  /\ sockets' = Broadcast([sockets EXCEPT ![h].open = FALSE], h,
                         "user_status_change", sockets[h].userId)
  /\ UNCHANGED <<users, messages, notifications, resp, reqs>>

\* the events the relays of the socket server emit
RelayedNames == {"message:new"}

NextSocket ==
  \/ \E h \in Handles, token \in Members \cup {NoId} : Connect(h, token)
  \/ \E h \in Handles : Disconnect(h)
  \/ \E h \in Handles, name \in RelayedNames, room \in Members : Relay(h, name, room)
  \/ \E u \in Members, receiverId \in Members :
       SendMessage(u, receiverId, Text(1, FALSE), "text", NoUrl, TRUE)
  \/ \E u \in Members, userId \in Members : GetConversation(u, userId, 1, DefaultLimit)

SpecSocket == Init /\ [][NextSocket]_vars

\* no connected socket is in the room of u
Offline(u) == InRoom(sockets, u) = {}

\* the message:new events a connection has received that announce a stored message
MessagePushes(sock) ==
  {e \in sock.received : e.name = "message:new" /\ e.ref # ClientData}

\* the step stores a new message
Stores == Len(messages') = Len(messages) + 1

\* the message a storing step has stored
Stored == messages'[Len(messages')]

\* C19: a message sent while its receiver has no connected socket is delivered
\* to no connection; a connection receives the message:new of a stored
\* message only in the step that stores it, so one opened later never gets
\* it; and the receiver's GET of the conversation returns every stored
\* message of the pair.
C19_OfflineNotDelivered ==
  [][/\ (Stores /\ Offline(Stored.receiverId)) => sockets' = sockets
     /\ \A h \in Handles :
          MessagePushes(sockets'[h]) \ MessagePushes(sockets[h]) \subseteq
            IF Stores /\ sockets[h].open
            THEN {Event("message:new", Stored.receiverId, Stored._id)}
            ELSE {}
     /\ \A u \in Members, userId \in Members :
          (GetConversation(u, userId, 1, DefaultLimit) /\ resp'.status = 200) =>
            \A i \in 1..Len(messages) :
              Between(messages[i], u, userId) =>
                \E k \in 1..Len(resp'.messages) : resp'.messages[k]._id = messages[i]._id]_vars

\* b has connected after a message for b was stored, has received nothing of
\* it, and has fetched the conversation that holds it
C19_Witness ==
  /\ \E h \in Handles :
       /\ sockets[h].open /\ sockets[h].userId = "b"
       /\ MessagePushes(sockets[h]) = {}
  /\ Len(messages) >= 1
  /\ messages[1].receiverId = "b"
  /\ resp.op = "conversation"
  /\ resp.status = 200
  /\ \E k \in 1..Len(resp.messages) : resp.messages[k]._id = 1

\* C20: the events a handler emits to the room of a user are received by every
\* socket of that user connected when they are emitted, and by no other
\* socket: neither one of another user nor one that has disconnected.
C20_FanOut ==
  [][Stores =>
       \A h \in Handles :
         sockets'[h].received =
           IF sockets[h].open /\ sockets[h].userId = Stored.receiverId
           THEN sockets[h].received \cup
                  {resp'.events[i] : i \in 1..Len(resp'.events)}
           ELSE sockets[h].received]_vars

\* two connections of b received the first message; one disconnected, and the
\* second message reached the other one only
C20_Witness ==
  \E h \in Handles, k \in Handles :
    /\ sockets[h].userId = "b" /\ sockets[k].userId = "b"
    /\ sockets[h].open /\ ~sockets[k].open
    /\ Len(messages) = 2
    /\ messages[1].receiverId = "b" /\ messages[2].receiverId = "b"
    /\ MessagePushes(sockets[h]) =
         {Event("message:new", "b", 1), Event("message:new", "b", 2)}
    /\ MessagePushes(sockets[k]) = {Event("message:new", "b", 1)}

\* the offline broadcasts for user u that a connection has received
OfflineOf(sock, u) ==
  {e \in sock.received : e.name = "user_status_change" /\ e.ref = u}

\* the connected sockets of the user of h, other than h
OtherLive(h) == InRoom(sockets, sockets[h].userId) \ {h}

\* C21 as stated: a disconnect of a connection whose user still has another
\* live connection emits no offline broadcast for that user.
C21_Original ==
  [][\A h \in Handles :
       (Disconnect(h) /\ OtherLive(h) # {}) =>
         \A k \in Handles :
           OfflineOf(sockets'[k], sockets[h].userId) = OfflineOf(sockets[k], sockets[h].userId)]_vars

-----------------------------------------------------------------------------
(* The GET routes of the messages router: a request runs the handler of    *)
(* the first registered route whose path pattern matches                   *)

\* GET /api/messages/unread-count
GetUnreadCount(u) ==
  /\ resp' = [Response("unread_count", 200) EXCEPT !.unreadCount = getUnreadCount(u)]
  /\ UNCHANGED <<users, messages, notifications, reqs, sockets>>

\* the route parameters
Params == {":sender", ":receiver", ":userId", ":otherUserId"}

\* router.get(path, ...) in the order of the calls
GetRoutes ==
  << <<"thread", ":sender", ":receiver">>, <<"conversation", ":userId">>,
     <<"conversations">>, <<":otherUserId">>, <<"conversations">>, <<"unread-count">> >>

\* a path matches a pattern segment by segment; a parameter matches any segment
Matches(pattern, path) ==
  /\ Len(pattern) = Len(path)
  /\ \A i \in 1..Len(pattern) : pattern[i] \in Params \/ pattern[i] = path[i]

\* the first registered route that matches, or 0
FirstMatch(path) ==
  LET found == {i \in 1..Len(GetRoutes) : Matches(GetRoutes[i], path)}
  IN  IF found = {} THEN 0 ELSE CHOOSE i \in found : \A j \in found : i <= j

\* GET /api/messages/<path> by u
Get(u, path) ==
  LET route == FirstMatch(path)
  IN  CASE route = 1 -> GetThread(u, path[2], path[3], 1, DefaultLimit)
        [] route = 2 -> GetConversation(u, path[2], 1, DefaultLimit)
        [] route \in {3, 5} -> GetConversations(u)
        [] route = 4 -> GetPair(u, path[1])
        [] route = 6 -> GetUnreadCount(u)
        [] OTHER -> /\ resp' = Response("none", 404)
                    /\ UNCHANGED <<users, messages, notifications, reqs, sockets>>

\* the paths requested
Paths ==
  {<<"unread-count">>, <<"conversations">>, <<"b">>, <<"conversation", "a">>,
   <<"thread", "a", "b">>, <<"unread-count", "of", "b", "please">>}

NextRoute ==
  \E u \in UserIds :
    \/ \E receiverId \in UserIds : SendMessage(u, receiverId, Text(1, FALSE), "text", NoUrl, TRUE)
    \/ \E path \in Paths : Get(u, path)
    \/ \E id \in 1..Len(messages) : DeleteMessage(u, id)

SpecRoute == Init /\ [][NextRoute]_vars

\* C22 as stated: GET /messages/unread-count answers every caller with the
\* number of unread, undeleted messages addressed to the caller.
C22_Original ==
  [][\A u \in UserIds :
       Get(u, <<"unread-count">>) =>
         (resp'.status = 200 /\ resp'.unreadCount = getUnreadCount(u))]_vars

\* a request of x waits for the answer of y
Awaiting(x, y) == Contains(users[y].connectionRequests, x)

\* u repeats a connect towards t: the two are connected, or u has a request
\* to t on record, or a request of either waits for the other's answer
Repeated(u, t) ==
  MutuallyConnected(u, t) \/ Pending(u, t) \/ Awaiting(u, t) \/ Awaiting(t, u)

\* the connection handlers as called by two users, from empty lists
NextPair ==
  \E u \in Members, t \in UserIds :
    \/ \E notifOk \in BOOLEAN : SendRequest(u, t, notifOk)
    \/ \E action \in Actions, notifOk \in BOOLEAN : RespondRequest(u, t, action, notifOk)
    \/ RemoveConnection(u, t)

SpecPair == InitConn /\ [][NextPair]_vars

-----------------------------------------------------------------------------
(* PUT /api/messages/:id/reaction step by step: findById gives the request *)
(* its own copy of the message, addReaction changes the copy, save writes  *)

\* the reactions a message holds at most in this part
MaxReactions == 2

\* what save() writes: the whole copy of the document, or only the change made
\* to the copy (the pushed element, or the emoji of the element that was found)
SaveModes == {"document", "change"}

\* the checks, Message.findById and the change addReaction makes to the copy
BeginReact(s, u, id, emoji) ==
  LET status == ReactStatus(id, emoji)
  IN  /\ reqs[s].pc = "idle"
      /\ IF status = 200
         THEN /\ reqs' = [reqs EXCEPT ![s] =
                   [IdleRequest EXCEPT !.op = "react", !.u = u, !.other = id,
                      !.pc = "saveReaction",
                      !.otherDoc = [was |-> messages[id],
                                    now |-> addReaction(messages[id], u, emoji)]]]
              /\ UNCHANGED resp
         ELSE /\ resp' = Response("react", status)
              /\ UNCHANGED reqs
      /\ UNCHANGED <<users, messages, notifications, sockets>>

\* the stored message after a save that writes the change only
SavedChange(stored, r) ==
  LET found == FindReaction(r.otherDoc.was.reactions, r.u)
      mine == r.otherDoc.now.reactions[IF found = 0 THEN Len(r.otherDoc.now.reactions) ELSE found]
  IN  IF found = 0 THEN [stored EXCEPT !.reactions = Append(@, mine)]
      ELSE IF found <= Len(stored.reactions)
           THEN [stored EXCEPT !.reactions[found].emoji = mine.emoji]
      ELSE stored

\* return this.save(), and the answer
SaveReact(s, mode) ==
  LET r == reqs[s]
  IN  /\ r.pc = "saveReaction"
      /\ messages' = [messages EXCEPT ![r.other] =
                        IF mode = "document" THEN r.otherDoc.now
                        ELSE SavedChange(@, r)]
      /\ Len(messages'[r.other].reactions) <= MaxReactions
      /\ resp' = Response("react", 200)
      /\ reqs' = [reqs EXCEPT ![s] = IdleRequest]
      /\ UNCHANGED <<users, notifications, sockets>>

NextReactRace ==
  \/ \E s \in Slots, u \in Members, id \in 1..(Len(messages) + 1), emoji \in Emojis :
       BeginReact(s, u, id, emoji)
  \/ \E s \in Slots, mode \in SaveModes : SaveReact(s, mode)
  \/ \E u \in Members : Unreact(u, 1)

SpecReactRace == InitSend /\ [][NextReactRace]_vars

\* C24 as stated: in every reachable state, also when reaction requests of one
\* user on one message interleave, a message holds at most one reaction per user.
C24_Original ==
  \A i \in 1..Len(messages) :
    \A v \in UserIds : Len(ReactionsOf(messages[i], v)) <= 1


-----------------------------------------------------------------------------
(* PUT /api/messages/:id/read, and who sets a read receipt                 *)

\* message.markAsRead(): sets isRead and readAt once, and saves
markAsRead(m) ==
  IF ~m.isRead THEN [m EXCEPT !.isRead = TRUE, !.readAt = SomeDate] ELSE m

\* the status of PUT /:id/read: 404 for an unknown id, 403 unless the caller is
\* the receiver
MarkReadStatus(u, id) ==
  IF id \notin 1..Len(messages) THEN 404
  ELSE IF messages[id].receiverId # u THEN 403
  ELSE 200

MarkRead(u, id) ==
  LET status == MarkReadStatus(u, id)
  IN  /\ resp' = Response("read", status)
      /\ messages' = IF status = 200
                     THEN [messages EXCEPT ![id] = markAsRead(@)]
                     ELSE messages
      /\ UNCHANGED <<users, notifications, reqs, sockets>>

\* one request of the messages router authenticated as u
ByUser(u) ==
  \/ \E receiverId \in UserIds, content \in SendContents :
       SendMessage(u, receiverId, content, "text", NoUrl, TRUE)
  \/ \E sender \in UserIds :
       \E receiver \in UserIds \ {sender} :
         GetThread(u, sender, receiver, 1, DefaultLimit)
  \/ \E userId \in UserIds : GetConversation(u, userId, 1, DefaultLimit)
  \/ \E userId \in UserIds : MarkConversationRead(u, userId)
  \/ \E id \in 1..(Len(messages) + 1) : MarkRead(u, id)
  \/ \E id \in 1..(Len(messages) + 1) : DeleteMessage(u, id)

NextRead == \E u \in UserIds : ByUser(u)

SpecRead == Init /\ [][NextRead]_vars

\* the messages whose read receipt the step sets
Receipted ==
  {i \in 1..Len(messages) : ~messages[i].isRead /\ messages'[i].isRead}

\* C25 as stated: a read receipt is set only by the receiver. A step that turns isRead
\* of a message from false to true is one of the four marking requests (PUT
\* /:id/read, PUT /conversation/:userId/read, GET /conversation/:userId, GET
\* /thread/:sender/:receiver), and every user whose request the step can be is
\* the receiverId of every message it marks; so no request of the sender marks a
\* message the sender sent.
C25_Original ==
  [][Receipted # {} =>
       /\ resp'.op \in {"read", "markRead", "conversation", "thread"}
       /\ \A u \in UserIds :
            ByUser(u) => \A i \in Receipted : messages[i].receiverId = u]_vars

-----------------------------------------------------------------------------
(* What a message event on a socket stands for                             *)

\* the events that announce a message to a client
MessageEventNames == {"message:new", "receive_message"}

\* C26 as stated: every message:new or receive_message event a connection has
\* received carries a message that is stored in the log with the connection's
\* user as receiverId; no socket client makes such an event reach another user
\* without a stored message, the socket handlers 'send_message' and
\* 'message:new' included.
C26_Original ==
  \A h \in Handles :
    \A e \in sockets[h].received :
      e.name \in MessageEventNames =>
        /\ e.ref \in 1..Len(messages)
        /\ messages[e.ref].receiverId = sockets[h].userId

-----------------------------------------------------------------------------
(* How two users become connected                                          *)

\* the step puts y into the connections of x
Links(x, y) ==
  ~Contains(users[x].connections, y) /\ Contains(users'[x].connections, y)

\* the step files a request of x with y
Files(x, y) == ~Awaiting(x, y) /\ Contains(users'[y].connectionRequests, x)

\* C27: two users become connected only through the acceptance of a pending
\* request. A step that puts y into x's connections is an accepting PUT
\* /users/connect/:id between x and y, made by the one of them with whom the
\* other's request was waiting; a request of x is filed with y only by x's
\* own POST /users/connect/y, and never with x itself. So no sequence of
\* requests of one user alone puts a user into anyone's connections.
C27_OnlyByAcceptance ==
  [][\A x \in UserIds :
       /\ ~Awaiting(x, x)
       /\ \A y \in UserIds :
            /\ Links(x, y) =>
                 /\ resp'.op = "respond"
                 /\ resp'.info = "accepted"
                 /\ \A u \in UserIds, t \in UserIds, notifOk \in BOOLEAN :
                      RespondRequest(u, t, "accept", notifOk) =>
                        /\ {u, t} = {x, y}
                        /\ Awaiting(t, u)
            /\ Files(x, y) =>
                 /\ resp'.op = "connect"
                 /\ \A u \in UserIds, t \in UserIds, notifOk \in BOOLEAN :
                      SendRequest(u, t, notifOk) => (u = x /\ t = y)]_vars

\* d accepted the request of b
C27_Witness ==
  /\ resp.op = "respond"
  /\ resp.info = "accepted"
  /\ MutuallyConnected("b", "d")
  /\ ~Awaiting("b", "d")

-----------------------------------------------------------------------------
(* PUT /api/admin/job-applications/:applicationId/status, and who writes   *)
(* into the Message Log                                                    *)

\* router.use(authorizeAdmin): only the admin role passes
authorizeAdmin(reqUser) == reqUser.role = "admin"

AdminUpdateStatus(u, status, job, applicant) ==
  IF ~authorizeAdmin(users[u]) THEN 403
  ELSE IF status \notin ApplicationStatuses THEN 400
  ELSE IF job = NoJob THEN 404
  ELSE IF applicant \notin job.applicants THEN 404
  ELSE 200

AdminUpdateApplication(u, status, job, applicant, notifOk, messageOk) ==
  LET code == AdminUpdateStatus(u, status, job, applicant)
      id == Len(messages) + 1
      sends == notifOk /\ status = "Approved" /\ messageOk
  IN  /\ (code = 200 /\ notifOk) => Len(notifications) < MaxNotifLog
      /\ (code = 200 /\ sends) => Len(messages) < MaxMsgs
      /\ IF code = 200
         THEN /\ notifications' = Notify(applicant, u, "JOB_APPLICATION_UPDATE", notifOk)
              /\ messages' =
                   IF sends
                   THEN Append(messages, NewMessage(id, u, applicant,
                                                    Text(ApprovalLength, FALSE), "text", NoUrl))
                   ELSE messages
              /\ resp' = [Response("adminApplication", 200) EXCEPT
                            !.events = NotifyEvents(applicant, notifOk) \o
                                       (IF sends THEN <<Event("message:new", applicant, id)>>
                                        ELSE <<>>)]
         ELSE /\ resp' = Response("adminApplication", code)
              /\ UNCHANGED <<messages, notifications>>
      /\ sockets' = Deliver(sockets, resp'.events)
      /\ UNCHANGED <<users, reqs>>

\* jobs of b and of the admin d, each with the applications of a and of d
PostedJobs ==
  {NoJob} \cup [postedBy : {"b", "d"}, isActive : {TRUE}, applicants : {{"a", "d"}}]

\* the three handlers that create a Message
NextApprove ==
  \E u \in UserIds :
    \/ \E receiverId \in UserIds :
         SendMessage(u, receiverId, Text(1, FALSE), "text", NoUrl, FALSE)
    \/ \E status \in {"Approved", "Rejected", "Other"}, job \in PostedJobs :
         \E applicant \in {"a", "d"}, notifOk \in BOOLEAN, messageOk \in BOOLEAN :
           \/ UpdateApplication(u, status, job, applicant, notifOk, messageOk)
           \/ AdminUpdateApplication(u, status, job, applicant, notifOk, messageOk)

SpecApprove == Init /\ [][NextApprove]_vars

\* C28: every Message is created by a sender who, in the record of the sender
\* that the creating handler read, has the admin role or has the receiver among
\* its connections, whichever of POST /messages, the approval in the jobs
\* routes and the approval in the admin routes creates it.
C28_SenderAllowed ==
  [][Stores =>
       /\ resp'.op \in {"send", "application", "adminApplication"}
       /\ \/ users[Stored.senderId].role = "admin"
          \/ Contains(users[Stored.senderId].connections, Stored.receiverId)]_vars

\* the admin d approved the application of a through the admin routes, and the
\* congratulation is in the log
C28_Witness ==
  /\ resp.op = "adminApplication"
  /\ resp.status = 200
  /\ Len(messages) >= 1
  /\ messages[Len(messages)].senderId = "d"
  /\ messages[Len(messages)].receiverId = "a"
  /\ messages[Len(messages)].content = Text(ApprovalLength, FALSE)

-----------------------------------------------------------------------------
(* The unread total against the conversations list                         *)

\* the conversations arrays answered to u when the store matches the ids of
\* the connections
MatchedLists(u) ==
  LET connectionIds == {toString(id) : id \in Range(users[u].connections)}
  IN  IF connectionIds = {} THEN {<<>>}
      ELSE {PopulateConversations(SortLastMessageDesc(g)) :
              g \in GroupConversations(MatchConversations(u, connectionIds, TRUE), u)}

\* the sum of unreadCount over the entries of a list
RECURSIVE SumUnread(_)
SumUnread(convs) ==
  IF convs = <<>> THEN 0 ELSE Head(convs).unreadCount + SumUnread(Tail(convs))

\* C29 as stated: for every non-admin U, in every reachable state, the number
\* of undeleted unread messages addressed to U (Message.getUnreadCount) equals
\* the sum of unreadCount over the entries GET /messages/conversations returns
\* to U.
C29_Original ==
  \A u \in UserIds :
    users[u].role # "admin" =>
      \A convs \in MatchedLists(u) : SumUnread(convs) = getUnreadCount(u)

-----------------------------------------------------------------------------
(* A new request after a rejection                                         *)

\* neither has the other among its connections, and no request of either
\* waits for the other's answer
Apart(x, y) ==
  /\ ~Contains(users[x].connections, y)
  /\ ~Contains(users[y].connections, x)
  /\ ~Awaiting(x, y)
  /\ ~Awaiting(y, x)

\* C30 as stated: a rejected request does not block a new one. Right after a
\* rejection, a POST /users/connect/:id between two users who are not connected
\* and have no request waiting, the rejected requester and the rejecting user
\* among them, files a new request: the caller is added to the target's
\* connectionRequests and the answer is not that of a pending request.
C30_Original ==
  [][(resp.op = "respond" /\ resp.info = "rejected") =>
       \A x \in Members :
         \A y \in UserIds \ {x} :
           Apart(x, y) =>
             \A notifOk \in BOOLEAN :
               SendRequest(x, y, notifOk) =>
                 /\ resp'.info = "sent"
                 /\ Contains(users'[y].connectionRequests, x)]_vars

====
